---------------------------- MODULE Spec2Model ----------------------------
(***************************************************************************)
(* A model of SVGtoDisplay: the polygon predicates (polygon.js), the       *)
(* convex decomposer and the polygon -> Display converter (geometry.js),   *)
(* the Display tree (display.js) and the batch conversion of script.js.    *)
(*                                                                         *)
(* Numbers.  The program computes in IEEE doubles.  The model computes in  *)
(* exact integers: every coordinate of the model is the program's          *)
(* coordinate multiplied by 2, so that the halved side vectors of         *)
(* triangleToDisplays stay integers.  On integer data a comparison with    *)
(* EPSILON = 1e-8 is a comparison with 0: |c| > EPSILON iff c # 0, and     *)
(* |c| < EPSILON iff c = 0.  Areas are kept doubled (the shoelace sum      *)
(* without the factor 0.5).                                                *)
(*                                                                         *)
(* Objects.  A JavaScript array used as a point is an object: two fields   *)
(* that hold the same array see each other's in-place writes.  The heap    *)
(* keeps point arrays in cells (heap.arr) and a Display's position is a    *)
(* reference to a cell.                                                    *)
(***************************************************************************)
EXTENDS Integers, Sequences, FiniteSets, TLC

\* ------------------------------------------------------------------ vec2

Abs(x) == IF x < 0 THEN -x ELSE x

Min2(a, b) == IF a < b THEN a ELSE b

Max2(a, b) == IF a < b THEN b ELSE a

\* vec2.add
add(a, b) == <<a[1] + b[1], a[2] + b[2]>>

\* vec2.sub
sub(a, b) == <<a[1] - b[1], a[2] - b[2]>>

\* vec2.scale, for an integer factor
scale(a, s) == <<a[1] * s, a[2] * s>>

\* vec2.scale(a, 0.5): exact on the even components the callers pass
half(a) == <<a[1] \div 2, a[2] \div 2>>

\* vec2.dot
dot(a, b) == a[1] * b[1] + a[2] * b[2]

\* vec2.cross
cross(a, b) == a[1] * b[2] - a[2] * b[1]

\* vec2.length squared: Math.hypot(x, y)^2
length2(a) == a[1] * a[1] + a[2] * a[2]

\* vec2.equal: both coordinate deltas below EPSILON
equal(a, b) == Abs(a[1] - b[1]) = 0 /\ Abs(a[2] - b[2]) = 0

\* vec2.isParallel: |cross| < EPSILON
isParallel(a, b) == Abs(cross(a, b)) = 0

\* --------------------------------------------------------------- Polygon

\* points[i] for a 0-based index taken modulo the ring's length
At(pts, i) == pts[(i % Len(pts)) + 1]

\* 0-based indices of a ring
Idx(pts) == 0 .. (Len(pts) - 1)

RECURSIVE SumTo(_, _)
\* f[0] + ... + f[n-1]
SumTo(f, n) == IF n = 0 THEN 0 ELSE f[n - 1] + SumTo(f, n - 1)

\* new Polygon(points, holes)
Polygon(points, holes) == [points |-> points, holes |-> holes]

hasHole(poly) == Len(poly.holes) > 0

isTriangle(poly) == ~hasHole(poly) /\ Len(poly.points) = 3

\* Polygon.isCounterClockwise: sum of (x2 - x1)(y2 + y1) < 0
isCounterClockwise(pts) ==
  LET n == Len(pts)
      term == [i \in Idx(pts) |->
                 (At(pts, i + 1)[1] - At(pts, i)[1]) * (At(pts, i + 1)[2] + At(pts, i)[2])]
  IN  SumTo(term, n) < 0

\* Polygon.isReflex
isReflex(p1, p2, p3) == cross(sub(p2, p1), sub(p3, p2)) < 0

\* Polygon.isConvex
isConvex(poly) ==
  LET pts == poly.points
      n == Len(pts)
  IN  /\ isCounterClockwise(pts)
      /\ ~hasHole(poly)
      /\ \A i \in Idx(pts) : ~isReflex(At(pts, i - 1 + n), At(pts, i), At(pts, i + 1))

\* Polygon.getSimpleArea, doubled: |sum of x1*y2 - x2*y1|
getSimpleArea2(pts) ==
  LET n == Len(pts)
      term == [i \in Idx(pts) |->
                 At(pts, i)[1] * At(pts, i + 1)[2] - At(pts, i + 1)[1] * At(pts, i)[2]]
  IN  Abs(SumTo(term, n))

\* Polygon.getArea, doubled: outer ring minus every hole
getArea2(poly) ==
  LET h == [k \in 0 .. (Len(poly.holes) - 1) |-> getSimpleArea2(poly.holes[k + 1])]
  IN  getSimpleArea2(poly.points) - SumTo(h, Len(poly.holes))

\* a plausible slip of isParallelogram: only one pair of opposite sides is tested
isParallelogramOnePair(poly) ==
  IF hasHole(poly) \/ Len(poly.points) # 4 THEN FALSE
  ELSE isParallel(sub(poly.points[2], poly.points[1]), sub(poly.points[4], poly.points[3]))

\* Polygon.isParallelogram.  |length(v) - length(w)| < EPSILON is equality of
\* the squared lengths on integer vectors.
isParallelogram(poly) ==
  IF hasHole(poly) \/ Len(poly.points) # 4 THEN FALSE
  ELSE LET p0 == poly.points[1]
           p1 == poly.points[2]
           p2 == poly.points[3]
           p3 == poly.points[4]
           v01 == sub(p1, p0)
           v23 == sub(p3, p2)
           v12 == sub(p2, p1)
           v30 == sub(p0, p3)
       IN  /\ isParallel(v01, v23)
           /\ length2(v01) = length2(v23)
           /\ isParallel(v12, v30)
           /\ length2(v12) = length2(v30)

\* onSeg of isInside: the point lies on the closed segment [a, b]
onSegInside(pt, a, b) ==
  LET c == (pt[1] - a[1]) * (b[2] - a[2]) - (pt[2] - a[2]) * (b[1] - a[1])
  IN  IF Abs(c) > 0 THEN FALSE
      ELSE /\ pt[1] >= Min2(a[1], b[1])
           /\ pt[1] <= Max2(a[1], b[1])
           /\ pt[2] >= Min2(a[2], b[2])
           /\ pt[2] <= Max2(a[2], b[2])

\* checkBoundary of isInside: edges (pts[j], pts[i]) with j the index before i
checkBoundary(pt, pts) ==
  \E i \in Idx(pts) : onSegInside(pt, At(pts, i - 1 + Len(pts)), pts[i + 1])

\* One edge of the ray cast:
\*   yi > py !== yj > py && px < ((xj - xi) * (py - yi)) / (yj - yi + EPSILON) + xi
\* With N = (xj - xi)(py - yi) and D = yj - yi # 0, a = px - xi is compared with
\* N / (D + EPSILON): that is a < N / D when a # N / D, and N < 0 when a = N / D
\* (the EPSILON moves the quotient away from a exactly when N < 0).
rayHits(pt, pi, pj) ==
  LET a == pt[1] - pi[1]
      N == (pj[1] - pi[1]) * (pt[2] - pi[2])
      D == pj[2] - pi[2]
  IN  /\ (pi[2] > pt[2]) # (pj[2] > pt[2])
      /\ IF a * D = N THEN N < 0
         ELSE IF D > 0 THEN a * D < N ELSE a * D > N

\* the even-odd ray cast of isInside over one ring
rayInside(pt, pts) ==
  LET hit == [i \in Idx(pts) |->
                IF rayHits(pt, pts[i + 1], At(pts, i - 1 + Len(pts))) THEN 1 ELSE 0]
  IN  SumTo(hit, Len(pts)) % 2 = 1

\* Polygon.isInside
isInside(poly, pt) ==
  IF checkBoundary(pt, poly.points) THEN TRUE
  ELSE IF \E k \in 1 .. Len(poly.holes) : checkBoundary(pt, poly.holes[k]) THEN TRUE
  ELSE IF ~rayInside(pt, poly.points) THEN FALSE
  ELSE ~ \E k \in 1 .. Len(poly.holes) : rayInside(pt, poly.holes[k])

orient(p, q, r) == (q[1] - p[1]) * (r[2] - p[2]) - (q[2] - p[2]) * (r[1] - p[1])

\* onSeg of isSegmentInside: q in the bounding box of p and r
onSegBox(p, q, r) ==
  /\ Min2(p[1], r[1]) <= q[1]
  /\ q[1] <= Max2(p[1], r[1])
  /\ Min2(p[2], r[2]) <= q[2]
  /\ q[2] <= Max2(p[2], r[2])

\* intersectsStrict of isSegmentInside
intersectsStrict(a, b, c, d) ==
  LET o1 == orient(a, b, c)
      o2 == orient(a, b, d)
      o3 == orient(c, d, a)
      o4 == orient(c, d, b)
  IN  \/ (o1 * o2 < 0 /\ o3 * o4 < 0)
      \/ (o1 = 0 /\ onSegBox(a, c, b) /\ ~equal(c, a) /\ ~equal(c, b))
      \/ (o2 = 0 /\ onSegBox(a, d, b) /\ ~equal(d, a) /\ ~equal(d, b))
      \/ (o3 = 0 /\ onSegBox(c, a, d) /\ ~equal(a, c) /\ ~equal(a, d))
      \/ (o4 = 0 /\ onSegBox(c, b, d) /\ ~equal(b, c) /\ ~equal(b, d))

\* checkEdges of isSegmentInside: no edge of the ring strictly meets [p0, p1]
checkEdges(p0, p1, pts) ==
  \A i \in Idx(pts) : ~intersectsStrict(p0, p1, At(pts, i - 1 + Len(pts)), pts[i + 1])

\* an isSegmentInside that leaves out the test of the two endpoints
isSegmentInsideEdgesOnly(poly, p0, p1) ==
  /\ checkEdges(p0, p1, poly.points)
  /\ \A k \in 1 .. Len(poly.holes) : checkEdges(p0, p1, poly.holes[k])

\* Polygon.isSegmentInside
isSegmentInside(poly, p0, p1) ==
  /\ isInside(poly, p0)
  /\ isInside(poly, p1)
  /\ checkEdges(p0, p1, poly.points)
  /\ \A k \in 1 .. Len(poly.holes) : checkEdges(p0, p1, poly.holes[k])


\* --------------------------------------------------------------- Display
\* The heap: heap.arr[r] is the point array with reference r, heap.disp[d] the
\* Display with identity d.  A Display's position is a reference; its
\* translation and sides are replaced, never written in place, by every method
\* but scale (which writes sides[0] and sides[1] of an array no other Display
\* holds), so they are kept by value.

EmptyHeap == [disp |-> <<>>, arr |-> <<>>]

\* a new point array holding v; its reference is Len(h.arr) + 1
allocArr(h, v) == [h EXCEPT !.arr = Append(@, v)]

\* new Display(position, sides), position being the array with reference posRef;
\* the new Display's identity is Len(h.disp) + 1
\* depth is counted in sixteenths: the constructor's 0.0625 is 1
newDisplay(h, posRef, sides) ==
  [h EXCEPT !.disp = Append(@, [type |-> "block_display",
                                state |-> [Name |-> "black_concrete"],
                                colorCode |-> -16777216,
                                passengers |-> <<>>,
                                sides |-> sides,
                                depth |-> 1,
                                position |-> posRef,
                                translation |-> <<0, 0>>])]

\* the value of d's position array
positionOf(h, d) == h.arr[h.disp[d].position]

\* Display.getAbsolutePosition
getAbsolutePosition(h, d) == add(positionOf(h, d), h.disp[d].translation)

\* a plausible slip of addPassenger: the passenger's translation is left as it was
addPassengerKeepsTranslation(h, self, d) ==
  [h EXCEPT !.disp[d].position = h.disp[self].position,
            !.disp[self].passengers = Append(@, d)]

\* Display.addPassenger: display.position = this.position shares the array
addPassenger(h, self, d) ==
  LET tr == add(h.disp[d].translation, sub(positionOf(h, d), positionOf(h, self)))
      h1 == [h EXCEPT !.disp[d].translation = tr]
      h2 == [h1 EXCEPT !.disp[d].position = h1.disp[self].position]
  IN  [h2 EXCEPT !.disp[self].passengers = Append(@, d)]

RECURSIVE addPassengers(_, _, _, _)
\* rest.forEach((d) => base.addPassenger(d)), from index k of list
addPassengers(h, base, list, k) ==
  IF k > Len(list) THEN h
  ELSE addPassengers(addPassenger(h, base, list[k]), base, list, k + 1)

\* a nestedDisplay that leaves the base where it is: its position is not
\* folded into its translation and not set to [0, 0]
nestedDisplayBaseStays(h, list) == addPassengers(h, list[1], list, 2)

\* Display.nestedDisplay([base, ...rest]) for a non-empty list: the base gets a
\* new array [0, 0] as its position
nestedDisplay(h, list) ==
  LET base == list[1]
      h1 == [h EXCEPT !.disp[base].translation =
                         add(positionOf(h, base), h.disp[base].translation)]
      h2 == allocArr(h1, <<0, 0>>)
      h3 == [h2 EXCEPT !.disp[base].position = Len(h2.arr)]
  IN  addPassengers(h3, base, list, 2)

\* a move that also takes the new position as the translation
moveSetsTranslation(h, self, xy) ==
  [h EXCEPT !.arr[h.disp[self].position] = xy, !.disp[self].translation = xy]

\* Display.move: writes the two components of the position array in place
move(h, self, xy) == [h EXCEPT !.arr[h.disp[self].position] = xy]

\* a plausible slip of scale: the passengers are not scaled
scaleDisplayOwnOnly(h, self, k) ==
  [h EXCEPT !.disp[self].sides = <<scale(@[1], k), scale(@[2], k)>>,
            !.disp[self].translation = scale(@, k)]

RECURSIVE scaleFrom(_, _, _, _)
RECURSIVE scaleDisplay(_, _, _)
\* Display.scale
scaleDisplay(h, self, k) ==
  LET h1 == [h EXCEPT !.disp[self].sides = <<scale(@[1], k), scale(@[2], k)>>,
                      !.disp[self].translation = scale(@, k)]
  IN  scaleFrom(h1, h1.disp[self].passengers, k, 1)

\* this.#invokeOnPassengers((p) => p.scale(scaleFactor)), from index i
scaleFrom(h, ps, k, i) ==
  IF i > Len(ps) THEN h
  ELSE scaleFrom(scaleDisplay(h, ps[i], k), ps, k, i + 1)

\* a plausible slip of the setters: the passengers are not reached
setFieldOwnOnly(h, self, f, v) == [h EXCEPT !.disp[self] = [@ EXCEPT ![f] = v]]

RECURSIVE setField(_, _, _, _)
RECURSIVE setFieldFrom(_, _, _, _, _)
\* this.f = v; this.#invokeOnPassengers((p) => p.setF(v)): the body the four
\* setters share, f being the field each assigns
setField(h, self, f, v) ==
  LET h1 == [h EXCEPT !.disp[self] = [@ EXCEPT ![f] = v]]
  IN  setFieldFrom(h1, h1.disp[self].passengers, f, v, 1)

\* #invokeOnPassengers of a setter, from index i
setFieldFrom(h, ps, f, v, i) ==
  IF i > Len(ps) THEN h
  ELSE setFieldFrom(setField(h, ps[i], f, v), ps, f, v, i + 1)

\* Display.setDepth
setDepth(h, self, depth) == setField(h, self, "depth", depth)

\* Display.setType: any type but the two display types is ignored
setType(h, self, type) ==
  IF type # "block_display" /\ type # "text_display" THEN h
  ELSE setField(h, self, "type", type)

\* Display.setBlockType
setBlockType(h, self, blockType) == setField(h, self, "state", [Name |-> blockType])

\* Display.setColor
setColor(h, self, colorCode) == setField(h, self, "colorCode", colorCode)

RECURSIVE getTotalDisplayCount(_, _)
\* Display.getTotalDisplayCount
getTotalDisplayCount(h, d) ==
  LET ps == h.disp[d].passengers
      c == [i \in 0 .. (Len(ps) - 1) |-> getTotalDisplayCount(h, ps[i + 1])]
  IN  1 + SumTo(c, Len(ps))

\* a plausible slip of getTransformation: the side vectors are laid out as the
\* rows of the linear part, not as its columns
getTransformationSidesAsRows(h, d) ==
  LET s0 == h.disp[d].sides[1]
      s1 == h.disp[d].sides[2]
      t == h.disp[d].translation
  IN  << <<5 * s0[1], 5 * s0[2], 0, 5 * t[1]>>,
         <<-(5 * s1[1]), -(5 * s1[2]), 0, -(5 * t[2])>>,
         <<0, 0, -h.disp[d].depth, 0>>,
         <<0, 0, 0, 1>> >>

\* Display.getTransformation, the four rows.  Every entry of rows 1 and 2 is
\* ten times the program's entry (five times the model coordinate it is read
\* from, model coordinates being doubled), so that the text_display offset
\* 0.4 * side stays an integer; row 3 holds the depth in sixteenths.
getTransformation(h, d) ==
  LET s0 == h.disp[d].sides[1]
      s1 == h.disp[d].sides[2]
      t == h.disp[d].translation
      depth == h.disp[d].depth
  IN  IF h.disp[d].type = "text_display"
      THEN << <<5 * s1[1] * 8, 5 * s0[1] * 4, 0, 5 * t[1] + 2 * s1[1]>>,
              <<-(5 * s1[2] * 8), -(5 * s0[2] * 4), 0, -(5 * t[2] + 2 * s1[2])>>,
              <<0, 0, depth * 1, 0>>,
              <<0, 0, 0, 1>> >>
      ELSE << <<5 * s0[1], 5 * s1[1], 0, 5 * t[1]>>,
              <<-(5 * s0[2]), -(5 * s1[2]), 0, -(5 * t[2])>>,
              <<0, 0, -depth, 0>>,
              <<0, 0, 0, 1>> >>

\* Array.prototype.flat of a matrix: its rows one after another
flat(rows) == [i \in 1 .. (4 * Len(rows)) |-> rows[((i - 1) \div 4) + 1][((i - 1) % 4) + 1]]

\* a plausible slip of getVertices: the corners are not reordered when
\* cross(side0, side1) is negative
getVerticesNoSwap(h, d) ==
  LET absPos == getAbsolutePosition(h, d)
      s0 == h.disp[d].sides[1]
      s1 == h.disp[d].sides[2]
  IN  <<absPos, add(absPos, s0), add(add(absPos, s0), s1), add(absPos, s1)>>

\* Display.getVertices
getVertices(h, d) ==
  LET absPos == getAbsolutePosition(h, d)
      s0 == h.disp[d].sides[1]
      s1 == h.disp[d].sides[2]
  IN  IF cross(s0, s1) >= 0
      THEN <<absPos, add(absPos, s0), add(add(absPos, s0), s1), add(absPos, s1)>>
      ELSE <<absPos, add(absPos, s1), add(add(absPos, s1), s0), add(absPos, s0)>>

RECURSIVE nbt(_, _)
\* a plausible slip of nbt: the field Passengers is always there
nbtAlwaysPassengers(h, d) ==
  [id |-> h.disp[d].type,
   transformation |-> flat(getTransformation(h, d)),
   Passengers |-> [i \in DOMAIN h.disp[d].passengers |-> nbt(h, h.disp[d].passengers[i])]]

\* Display.nbt: a record that has the field Passengers only when the Display
\* has passengers
nbt(h, d) ==
  LET ps == h.disp[d].passengers
      resultNBT == [id |-> h.disp[d].type, transformation |-> flat(getTransformation(h, d))]
      withKind == IF h.disp[d].type = "block_display"
                  THEN resultNBT @@ [block_state |-> h.disp[d].state]
                  ELSE resultNBT @@ [background |-> h.disp[d].colorCode, text |-> "\\s"]
  IN  IF Len(ps) > 0
      THEN withKind @@ [Passengers |-> [i \in DOMAIN ps |-> nbt(h, ps[i])]]
      ELSE withKind

\* the Displays that are somebody's passenger
Passengers(h) ==
  UNION {{h.disp[d].passengers[i] : i \in DOMAIN h.disp[d].passengers} : d \in DOMAIN h.disp}

\* the Displays that are nobody's passenger
Roots(h) == (DOMAIN h.disp) \ Passengers(h)

\* the parent of a passenger
ParentOf(h, c) ==
  CHOOSE d \in DOMAIN h.disp : \E i \in DOMAIN h.disp[d].passengers : h.disp[d].passengers[i] = c

RECURSIVE Subtree(_, _)
\* the Displays reachable from the set S through passengers
Subtree(h, S) ==
  LET T == S \cup UNION {{h.disp[d].passengers[i] : i \in DOMAIN h.disp[d].passengers} : d \in S}
  IN  IF T = S THEN S ELSE Subtree(h, T)

\* ------------------------------------------------- polygon -> Display
\* Polygon.getMaxInteriorAngleIndex.  angle = Math.acos(dot / (|v1| |v2|)) and
\* acos decreases, so angle_i > angle_j iff cos_i < cos_j; the cosines are
\* compared exactly through their signs and squares.  A zero edge vector makes
\* the quotient 0 / 0 = NaN, which no comparison accepts.

\* the vectors from vertex i to its neighbours
prevVec(pts, i) == sub(At(pts, i - 1 + Len(pts)), At(pts, i))

nextVec(pts, i) == sub(At(pts, i + 1), At(pts, i))

angleIsNaN(pts, i) == length2(prevVec(pts, i)) * length2(nextVec(pts, i)) = 0

\* cos at vertex i < cos at vertex j
cosLess(pts, i, j) ==
  LET ni == dot(prevVec(pts, i), nextVec(pts, i))
      di == length2(prevVec(pts, i)) * length2(nextVec(pts, i))
      nj == dot(prevVec(pts, j), nextVec(pts, j))
      dj == length2(prevVec(pts, j)) * length2(nextVec(pts, j))
  IN  IF ni < 0 /\ nj >= 0 THEN TRUE
      ELSE IF ni >= 0 /\ nj < 0 THEN FALSE
      ELSE IF ni >= 0 THEN ni * ni * dj < nj * nj * di
      ELSE ni * ni * dj > nj * nj * di

RECURSIVE maxAngleFrom(_, _, _)
\* the loop of getMaxInteriorAngleIndex from index i, maxIndex being the best
\* so far (-1: none, maxAngle = -Infinity)
maxAngleFrom(pts, i, maxIndex) ==
  IF i >= Len(pts) THEN maxIndex
  ELSE IF angleIsNaN(pts, i) THEN maxAngleFrom(pts, i + 1, maxIndex)
  ELSE IF maxIndex = -1 \/ cosLess(pts, i, maxIndex) THEN maxAngleFrom(pts, i + 1, i)
  ELSE maxAngleFrom(pts, i + 1, maxIndex)

getMaxInteriorAngleIndex(poly) ==
  IF Len(poly.points) < 3 THEN -1 ELSE maxAngleFrom(poly.points, 0, -1)

RECURSIVE allocPoints(_, _, _)
\* the point arrays of a ring, as heap cells: point i (0-based) of a ring
\* allocated on heap h0 has reference Len(h0.arr) + i + 1
allocPoints(h, pts, k) ==
  IF k > Len(pts) THEN h ELSE allocPoints(allocArr(h, pts[k]), pts, k + 1)

RECURSIVE triangleToDisplaysWholeEdges(_, _, _, _)
\* a plausible slip of triangleToDisplays: the sides are the whole edges
triangleToDisplaysWholeEdges(h, pts, refs, i) ==
  IF i > 2 THEN h
  ELSE triangleToDisplaysWholeEdges(
         newDisplay(h, refs[i + 1],
                    <<sub(At(pts, i + 1), At(pts, i)), sub(At(pts, i + 2), At(pts, i))>>),
         pts, refs, i + 1)

RECURSIVE triangleToDisplaysFrom(_, _, _, _)
\* triangleToDisplays(points): one Display per vertex p, with half the two edges
\* leaving p as sides; refs are the references of the three point arrays
triangleToDisplaysFrom(h, pts, refs, i) ==
  IF i > 2 THEN h
  ELSE LET p == At(pts, i)
           q == At(pts, i + 1)
           r == At(pts, i + 2)
       IN  triangleToDisplaysFrom(
             newDisplay(h, refs[i + 1], <<half(sub(q, p)), half(sub(r, p))>>),
             pts, refs, i + 1)

triangleToDisplays(h, pts, refs) == triangleToDisplaysFrom(h, pts, refs, 0)

\* the identities of the k Displays created last
LastCreated(h, k) == [i \in 1 .. k |-> Len(h.disp) - k + i]

\* what a call of convexToDisplay gives: it throws, or it returns root.  wedges
\* lists, per triangle or fan wedge, the Displays emitted for it and whether
\* they are one completed parallelogram (single) or the three half-size ones.
Thrown(h, why) == [heap |-> h, thrown |-> TRUE, why |-> why, root |-> 0, wedges |-> <<>>]

Returned(h, root, wedges) ==
  [heap |-> h, thrown |-> FALSE, why |-> "", root |-> root, wedges |-> wedges]

Wedge(displays, single) == [displays |-> displays, single |-> single]

\* a plausible slip of the triangle branch: the candidates are tested in the
\* order pC, pB, pA
convexToDisplayTriangleLastFirst(h, pts, ref, boundary) ==
  LET p0 == pts[1]
      p1 == pts[2]
      p2 == pts[3]
      pA == add(p0, sub(p1, p2))
      pB == add(p1, sub(p2, p0))
      pC == add(p2, sub(p0, p1))
  IN  IF isSegmentInside(boundary, pC, p2) /\ isSegmentInside(boundary, pC, p0)
      THEN LET h1 == newDisplay(h, ref[3], <<sub(p1, p2), sub(pC, p2)>>)
           IN  Returned(h1, Len(h1.disp), <<Wedge(LastCreated(h1, 1), TRUE)>>)
      ELSE IF isSegmentInside(boundary, pB, p1) /\ isSegmentInside(boundary, pB, p2)
      THEN LET h1 == newDisplay(h, ref[2], <<sub(p0, p1), sub(pB, p1)>>)
           IN  Returned(h1, Len(h1.disp), <<Wedge(LastCreated(h1, 1), TRUE)>>)
      ELSE IF isSegmentInside(boundary, pA, p0) /\ isSegmentInside(boundary, pA, p1)
      THEN LET h1 == newDisplay(h, ref[1], <<sub(p2, p0), sub(pA, p0)>>)
           IN  Returned(h1, Len(h1.disp), <<Wedge(LastCreated(h1, 1), TRUE)>>)
      ELSE LET h1 == triangleToDisplays(h, pts, ref)
               ds == LastCreated(h1, 3)
           IN  Returned(nestedDisplay(h1, ds), ds[1], <<Wedge(ds, FALSE)>>)

\* the triangle branch of convexToDisplay
convexToDisplayTriangle(h, pts, ref, boundary) ==
  LET p0 == pts[1]
      p1 == pts[2]
      p2 == pts[3]
      pA == add(p0, sub(p1, p2))
      pB == add(p1, sub(p2, p0))
      pC == add(p2, sub(p0, p1))
  IN  IF isSegmentInside(boundary, pA, p0) /\ isSegmentInside(boundary, pA, p1)
      THEN LET h1 == newDisplay(h, ref[1], <<sub(p2, p0), sub(pA, p0)>>)
           IN  Returned(h1, Len(h1.disp), <<Wedge(LastCreated(h1, 1), TRUE)>>)
      ELSE IF isSegmentInside(boundary, pB, p1) /\ isSegmentInside(boundary, pB, p2)
      THEN LET h1 == newDisplay(h, ref[2], <<sub(p0, p1), sub(pB, p1)>>)
           IN  Returned(h1, Len(h1.disp), <<Wedge(LastCreated(h1, 1), TRUE)>>)
      ELSE IF isSegmentInside(boundary, pC, p2) /\ isSegmentInside(boundary, pC, p0)
      THEN LET h1 == newDisplay(h, ref[3], <<sub(p1, p2), sub(pC, p2)>>)
           IN  Returned(h1, Len(h1.disp), <<Wedge(LastCreated(h1, 1), TRUE)>>)
      ELSE LET h1 == triangleToDisplays(h, pts, ref)
               ds == LastCreated(h1, 3)
           IN  Returned(nestedDisplay(h1, ds), ds[1], <<Wedge(ds, FALSE)>>)

RECURSIVE fanFrom(_, _, _, _, _, _, _)
\* the loop of convexToDisplay over the edges (i, i + 1) not incident to the
\* apex maxIdx; acc is resultDisplays, ws the wedges so far
fanFrom(h, pts, ref, boundary, maxIdx, i, aw) ==
  LET n == Len(pts)
  IN  IF i >= n THEN [heap |-> h, acc |-> aw.acc, ws |-> aw.ws]
      ELSE IF i = maxIdx \/ (i + 1) % n = maxIdx
      THEN fanFrom(h, pts, ref, boundary, maxIdx, i + 1, aw)
      ELSE LET p0 == At(pts, maxIdx)
               p1 == At(pts, i)
               p2 == At(pts, i + 1)
               r0 == ref[maxIdx + 1]
               r1 == ref[i + 1]
               r2 == ref[((i + 1) % n) + 1]
               pA == add(p0, sub(p1, p2))
               pC == add(p2, sub(p0, p1))
           IN  IF isSegmentInside(boundary, pA, p0) /\ isSegmentInside(boundary, pA, p1)
               THEN LET h1 == newDisplay(h, r0, <<sub(p2, p0), sub(pA, p0)>>)
                    IN  fanFrom(h1, pts, ref, boundary, maxIdx, i + 1,
                          [acc |-> aw.acc \o LastCreated(h1, 1),
                           ws |-> Append(aw.ws, Wedge(LastCreated(h1, 1), TRUE))])
               ELSE IF isSegmentInside(boundary, pC, p2) /\ isSegmentInside(boundary, pC, p0)
               THEN LET h1 == newDisplay(h, r2, <<sub(p1, p2), sub(pC, p2)>>)
                    IN  fanFrom(h1, pts, ref, boundary, maxIdx, i + 1,
                          [acc |-> aw.acc \o LastCreated(h1, 1),
                           ws |-> Append(aw.ws, Wedge(LastCreated(h1, 1), TRUE))])
               ELSE LET h1 == triangleToDisplays(h, <<p0, p1, p2>>, <<r0, r1, r2>>)
                    IN  fanFrom(h1, pts, ref, boundary, maxIdx, i + 1,
                          [acc |-> aw.acc \o LastCreated(h1, 3),
                           ws |-> Append(aw.ws, Wedge(LastCreated(h1, 3), FALSE))])

\* a plausible slip of the end of convexToDisplay: the first Display is
\* returned without the others
fanResultFirstOnly(f) == Returned(f.heap, f.acc[1], f.ws)

\* the end of convexToDisplay: Display.nestedDisplay(resultDisplays)
fanResult(f) == Returned(nestedDisplay(f.heap, f.acc), f.acc[1], f.ws)

\* a plausible slip of the guard: only the number of points is tested
convexToDisplayGuardCountOnly(polygon) ==
  IF Len(polygon.points) < 3 THEN "The number of input polygon points is less than 3" ELSE ""

\* the two throw statements of convexToDisplay, reached by a polygon that is
\* neither a triangle nor a parallelogram: the message thrown, "" when none is
convexToDisplayGuard(polygon) ==
  IF ~isConvex(polygon) THEN "input polygon is not convex"
  ELSE IF Len(polygon.points) < 3 THEN "The number of input polygon points is less than 3"
  ELSE ""

\* convexToDisplay(polygon, boundaryPolygon).  The points of the polygon are
\* arrays; a Display anchored at one holds that array as its position.
convexToDisplay(h, polygon, boundary) ==
  LET pts == polygon.points
      h0 == allocPoints(h, pts, 1)
      ref == [i \in 1 .. Len(pts) |-> Len(h.arr) + i]
  IN  IF isTriangle(polygon) THEN convexToDisplayTriangle(h0, pts, ref, boundary)
      ELSE IF isParallelogram(polygon)
      THEN LET h1 == newDisplay(h0, ref[2], <<sub(pts[1], pts[2]), sub(pts[3], pts[2])>>)
           IN  Returned(h1, Len(h1.disp), <<Wedge(LastCreated(h1, 1), FALSE)>>)
      ELSE IF convexToDisplayGuard(polygon) # "" THEN Thrown(h0, convexToDisplayGuard(polygon))
      ELSE fanResult(fanFrom(h0, pts, ref, boundary, getMaxInteriorAngleIndex(polygon), 0,
                             [acc |-> <<>>, ws |-> <<>>]))

\* ------------------------------------------ geometry.js: the decomposer

\* Polygon.clone: a copy of every point of the outer ring and of every hole
clone(poly) ==
  [points |-> [i \in DOMAIN poly.points |-> <<poly.points[i][1], poly.points[i][2]>>],
   holes  |-> [k \in DOMAIN poly.holes |->
                 [i \in DOMAIN poly.holes[k] |-> <<poly.holes[k][i][1], poly.holes[k][i][2]>>]]]

RECURSIVE removeColinearFrom(_, _)
\* the loop of removeColinear from index i on
removeColinearFrom(points, i) ==
  IF i = Len(points) THEN <<>>
  ELSE LET n == Len(points)
           a == At(points, i - 1 + n)
           b == At(points, i)
           c == At(points, i + 1)
           ab == <<b[1] - a[1], b[2] - a[2]>>
           bc == <<c[1] - b[1], c[2] - b[2]>>
           crs == ab[1] * bc[2] - ab[2] * bc[1]
       IN  (IF Abs(crs) > 0 THEN <<b>> ELSE <<>>) \o removeColinearFrom(points, i + 1)

\* a removeColinear that loses the first point of the ring
removeColinearDropsFirst(points) == Tail(points)

\* a removeColinear that removes nothing
removeColinearKeepsAll(points) == points

\* Polygon.removeColinear
removeColinear(points) ==
  IF Len(points) < 3 THEN points ELSE removeColinearFrom(points, 0)

\* Polygon.simplify
simplify(poly) ==
  LET result == clone(poly)
  IN  [points |-> removeColinear(result.points),
       holes  |-> [k \in DOMAIN result.holes |-> removeColinear(result.holes[k])]]

\* toTriangles: the raw triangles of the tessellator as Polygons, those that
\* are not convex (clockwise or flat) filtered out
toTriangles(rawTriangles) ==
  SelectSeq([k \in DOMAIN rawTriangles |-> Polygon(rawTriangles[k], <<>>)], isConvex)

RECURSIVE sharedFrom(_, _, _)
\* the shared list of convexDecomposition: p1 of polyA for every pair p1 of
\* polyA, p2 of polyB with vec2.equal(p1, p2), pairs counted from k on
sharedFrom(ptsA, ptsB, k) ==
  IF k = Len(ptsA) * Len(ptsB) THEN <<>>
  ELSE LET p1 == ptsA[(k \div Len(ptsB)) + 1]
           p2 == ptsB[(k % Len(ptsB)) + 1]
       IN  (IF equal(p1, p2) THEN <<p1>> ELSE <<>>) \o sharedFrom(ptsA, ptsB, k + 1)

sharedPoints(polyA, polyB) == sharedFrom(polyA.points, polyB.points, 0)

\* Array.findIndex with vec2.equal, 0-based, -1 when there is none
findIndex(pts, s) ==
  IF \E i \in Idx(pts) : equal(At(pts, i), s)
  THEN CHOOSE i \in Idx(pts) :
         equal(At(pts, i), s) /\ \A j \in Idx(pts) : equal(At(pts, j), s) => i <= j
  ELSE -1

\* Array.slice(from, to) for 0 <= from, 0 <= to
slice(pts, from, to) == SubSeq(pts, from + 1, Min2(to, Len(pts)))

\* a mergePolygons that takes polyB from its second shared point to the end
\* of its list and does not wrap around to the start of the list
mergePolygonsNoWrap(polyA, polyB, shared) ==
  LET s0 == shared[1]
      s1 == shared[2]
      lenPolyA == Len(polyA.points)
      ordered == (findIndex(polyA.points, s0) + 1) % lenPolyA = findIndex(polyA.points, s1)
      idxPolyAFirst == findIndex(polyA.points, IF ordered THEN s1 ELSE s0)
      idxPolyBSecond == findIndex(polyB.points, IF ordered THEN s0 ELSE s1)
  IN  Polygon(slice(polyA.points, idxPolyAFirst + 1, lenPolyA)
                \o slice(polyA.points, 0, idxPolyAFirst)
                \o slice(polyB.points, idxPolyBSecond + 1, Len(polyB.points)), <<>>)

\* mergePolygons
mergePolygons(polyA, polyB, shared) ==
  LET s0 == shared[1]
      s1 == shared[2]
      lenPolyA == Len(polyA.points)
      idxPolyAs0 == findIndex(polyA.points, s0)
      idxPolyAs1 == findIndex(polyA.points, s1)
      idxPolyBs0 == findIndex(polyB.points, s0)
      idxPolyBs1 == findIndex(polyB.points, s1)
      ordered == (idxPolyAs0 + 1) % lenPolyA = idxPolyAs1
      idxPolyAFirst == IF ordered THEN idxPolyAs1 ELSE idxPolyAs0
      idxPolyBSecond == IF ordered THEN idxPolyBs0 ELSE idxPolyBs1
      merged == slice(polyA.points, idxPolyAFirst + 1, lenPolyA)
                  \o slice(polyA.points, 0, idxPolyAFirst)
                  \o slice(polyB.points, idxPolyBSecond + 1, Len(polyB.points))
                  \o slice(polyB.points, 0, idxPolyBSecond)
  IN  Polygon(merged, <<>>)

\* a merge test that accepts every candidate
mergeAcceptedAlways(mergeCandidate) == TRUE

\* the test of convexDecomposition on a merge candidate
mergeAccepted(mergeCandidate) == isConvex(mergeCandidate)

\* a merge test that looks at neighbours in the list only: j = i + 1
canMergeNeighboursOnly(polygons, i, j) ==
  /\ j = i + 1
  /\ \E shared \in {sharedPoints(polygons[i + 1], polygons[j + 1])} :
        /\ Len(shared) = 2
        /\ \E mergeCandidate \in {mergePolygons(polygons[i + 1], polygons[j + 1], shared)} :
              isConvex(mergeCandidate)

\* polygons i and j (0-based, i < j) of the list merge: they share exactly
\* two points and the merge candidate is accepted
canMerge(polygons, i, j) ==
  \E shared \in {sharedPoints(polygons[i + 1], polygons[j + 1])} :
     /\ Len(shared) = 2
     /\ \E mergeCandidate \in {mergePolygons(polygons[i + 1], polygons[j + 1], shared)} :
           mergeAccepted(mergeCandidate)

\* the pairs i < j of the list in the order the two loops visit them
mergePairs(polygons) ==
  {ij \in (0 .. (Len(polygons) - 1)) \X (0 .. (Len(polygons) - 1)) :
     ij[1] < ij[2] /\ canMerge(polygons, ij[1], ij[2])}

\* the list without its element at 0-based index k: splice(k, 1)
splice(list, k) == SubSeq(list, 1, k) \o SubSeq(list, k + 2, Len(list))

\* the first pair of found in the order of the two loops
firstPair(found) ==
  CHOOSE m \in found : \A o \in found : m[1] < o[1] \/ (m[1] = o[1] /\ m[2] <= o[2])

\* the list after the merge of polyA and polyB, its elements ij[1] < ij[2]:
\* both spliced out, the simplified merge candidate pushed at the end
mergeOf(polygons, ij, polyA, polyB) ==
  CHOOSE r \in UNION {{[merged |-> TRUE,
                        polygons |-> Append(splice(splice(polygons, ij[2]), ij[1]), mergedPoly)] :
                          mergedPoly \in {simplify(mergeCandidate)}} :
                            mergeCandidate \in {mergePolygons(polyA, polyB, sharedPoints(polyA, polyB))}} : TRUE

\* one pass of the while loop of convexDecomposition: the first pair that
\* merges is replaced by its simplified merge, pushed at the end
mergePass(polygons) ==
  IF mergePairs(polygons) = {} THEN [merged |-> FALSE, polygons |-> polygons]
  ELSE CHOOSE r \in {mergeOf(polygons, ij, polygons[ij[1] + 1], polygons[ij[2] + 1]) :
                        ij \in {firstPair(mergePairs(polygons))}} : TRUE

RECURSIVE mergeLoop(_)
\* the while loop of convexDecomposition, to its end
mergeLoop(polygons) ==
  LET r == mergePass(polygons)
  IN  IF r.merged THEN mergeLoop(r.polygons) ELSE polygons

\* the early return of convexDecomposition on triangles only
returnsInputTriangleOnly(input) == isTriangle(input)

\* the early return of convexDecomposition
returnsInput(input) == isTriangle(input) \/ isConvex(input)

\* convexDecomposition(polygon) when the tessellator returns rawTriangles
convexDecomposition(polygon, rawTriangles) ==
  LET input == clone(polygon)
  IN  IF returnsInput(input) THEN <<input>> ELSE mergeLoop(toTriangles(rawTriangles))

\* -------------------------------------------------- libtess, the tessellator
\* What triangulate may hand back for a polygon: triangles on the polygon's
\* vertices, counterclockwise and of non-zero area, that tile the polygon, in
\* any order.

\* every vertex of the polygon, outer ring and holes
VerticesOf(poly) ==
  {poly.points[i] : i \in DOMAIN poly.points}
    \cup UNION {{poly.holes[k][i] : i \in DOMAIN poly.holes[k]} : k \in DOMAIN poly.holes}

\* every edge of the polygon, outer ring and holes
EdgesOfRing(pts) == {<<At(pts, i), At(pts, i + 1)>> : i \in Idx(pts)}

EdgesOf(poly) ==
  EdgesOfRing(poly.points) \cup UNION {EdgesOfRing(poly.holes[k]) : k \in DOMAIN poly.holes}

\* the open segment p q meets the inside of the counterclockwise triangle t:
\* the values of s in (0, 1) at which p + s (q - p) is strictly left of all
\* three edges form a non-empty interval
SegmentCutsTriangle(p, q, t) ==
  LET A == [i \in 0 .. 2 |-> orient(At(t, i), At(t, i + 1), p)]
      B == [i \in 0 .. 2 |-> orient(At(t, i), At(t, i + 1), q) - A[i]]
      lowers == {<<0, 1>>} \cup {<<-A[i], B[i]>> : i \in {k \in 0 .. 2 : B[k] > 0}}
      uppers == {<<1, 1>>} \cup {<<A[i], -B[i]>> : i \in {k \in 0 .. 2 : B[k] < 0}}
  IN  /\ \A i \in 0 .. 2 : B[i] = 0 => A[i] > 0
      /\ \A l \in lowers, u \in uppers : l[1] * u[2] < u[1] * l[2]

\* the polygon with every coordinate multiplied by k
Scaled(poly, k) ==
  [points |-> [i \in DOMAIN poly.points |-> scale(poly.points[i], k)],
   holes  |-> [h \in DOMAIN poly.holes |->
                 [i \in DOMAIN poly.holes[h] |-> scale(poly.holes[h][i], k)]]]

\* the counterclockwise triangle t lies in the filled region of the polygon:
\* no edge of the polygon cuts it and its centroid is inside
TriangleInside(poly, t) ==
  /\ \A e \in EdgesOf(poly) : ~SegmentCutsTriangle(e[1], e[2], t)
  /\ isInside(Scaled(poly, 3), add(add(t[1], t[2]), t[3]))

\* two counterclockwise triangles have no inner point in common: an edge of
\* one has the other on its right
TrianglesApart(s, t) ==
  \/ \E i \in 0 .. 2 : \A j \in 1 .. 3 : orient(At(s, i), At(s, i + 1), t[j]) <= 0
  \/ \E i \in 0 .. 2 : \A j \in 1 .. 3 : orient(At(t, i), At(t, i + 1), s[j]) <= 0

\* vertex p comes before vertex q: further left, or as far left and lower
Before(p, q) == p[1] < q[1] \/ (p[1] = q[1] /\ p[2] < q[2])

\* the triangles the tessellator may emit for the polygon, each from any of
\* its vertices on for a polygon without holes, from its first vertex on for
\* a polygon with holes
TessTriangles(poly) ==
  {t \in VerticesOf(poly) \X VerticesOf(poly) \X VerticesOf(poly) :
     /\ orient(t[1], t[2], t[3]) > 0
     /\ hasHole(poly) => (Before(t[1], t[2]) /\ Before(t[1], t[3]))
     /\ TriangleInside(poly, t)}

\* the doubled area of a list of raw triangles
TessArea2(rawTriangles) ==
  SumTo([k \in 0 .. (Len(rawTriangles) - 1) |-> getSimpleArea2(rawTriangles[k + 1])],
        Len(rawTriangles))

\* ------------------------------------------------ geometry.js: toDisplay

\* what the tessellator gives for a polygon: its error callback fires, or it
\* hands back raw triangles
TessError == [error |-> TRUE, triangles |-> <<>>]

TessGives(rawTriangles) == [error |-> FALSE, triangles |-> rawTriangles]

\* the try of toDisplay around convexToDisplay: the Display is pushed to acc,
\* an error is caught and logged
pushOrWarn(r, acc) ==
  [heap |-> r.heap, displays |-> IF r.thrown THEN acc ELSE Append(acc, r.root)]

RECURSIVE convertConvexes(_, _, _, _)
\* the reduce of toDisplay from convex k on; c holds the heap and acc
convertConvexes(c, convexes, polygon, k) ==
  IF k > Len(convexes) THEN c
  ELSE convertConvexes(pushOrWarn(convexToDisplay(c.heap, convexes[k], polygon), c.displays),
                       convexes, polygon, k + 1)

\* the end of toDisplay: Display.nestedDisplay(displays) on what the reduce
\* gave.  nestedDisplay of an empty list reads base.translation of undefined,
\* a TypeError.  setColor and setLayer tag the result and move nothing.
nestDisplays(c) ==
  IF c.displays = <<>>
  THEN [heap |-> c.heap, thrown |-> TRUE, why |-> "TypeError", root |-> 0]
  ELSE [heap |-> nestedDisplay(c.heap, c.displays), thrown |-> FALSE,
        why |-> "", root |-> c.displays[1]]

\* toDisplay(polygon) when the tessellator gives tess.  convexDecomposition is
\* called outside the try, so an error of the tessellator leaves toDisplay.
toDisplay(h, polygon, tess) ==
  IF ~returnsInput(clone(polygon)) /\ tess.error
  THEN [heap |-> h, thrown |-> TRUE, why |-> "Tessellation error", root |-> 0]
  ELSE nestDisplays(convertConvexes([heap |-> h, displays |-> <<>>],
                                    convexDecomposition(polygon, tess.triangles), polygon, 1))

\* ------------------------------------------------------------- the state

VARIABLES
  heap,        \* the Displays and the point arrays they refer to
  op,          \* the last call made: its name and arguments
  steps,       \* the number of calls made so far
  pc,          \* where the conversion under way stands
  cvIn,        \* convexToDisplay's arguments: [polygon, boundary]
  cvOut,       \* what convexToDisplay gave: thrown, or the root and the wedges
  dcPc,        \* where the decomposition under way stands
  dcPolygon,   \* convexDecomposition's argument, the caller's polygon
  dcInput,     \* convexDecomposition's input, the clone it works on
  dcTess,      \* the raw triangles the tessellator has handed back so far
  dcPolygons,  \* convexDecomposition's polygons list
  tessCalled,  \* the tessellator was called
  tessMesh,    \* the triangles the tessellator can make of the polygon at hand
  bPc,         \* where convertToDisplay stands
  batch,       \* the polygons of the batch, each with what its tessellation gives
  bAcc,        \* the acc of the reduce: the Displays pushed, each with its polygon
  resultDisplay,  \* script.js resultDisplay, 0 while it is not assigned
  draw,        \* the drawing: its #original-svg, #polygon-svg and #display-svg groups
  summonButton,  \* the summon button: "disabled" or "enabled"
  readers,     \* the files a FileReader is reading, onload or onerror to come
  pendingSVGFiles,  \* script.js pendingSVGFiles
  replaceConfirmDialog  \* the replace dialog: "hidden" or "shown"

treeVars == <<heap, op, steps>>

convVars == <<pc, cvIn, cvOut>>

decVars == <<dcPc, dcPolygon, dcInput, dcTess, dcPolygons, tessCalled, tessMesh>>

uiVars == <<draw, summonButton, readers, pendingSVGFiles, replaceConfirmDialog>>

batchVars == <<bPc, batch, bAcc, resultDisplay, uiVars>>

vars == <<treeVars, convVars, decVars, batchVars>>

None == [none |-> TRUE]

\* no conversion is under way
ConvIdle == pc = "idle" /\ cvIn = None /\ cvOut = None

NoOp == [name |-> "none"]

\* the drawing without a group
EmptyDrawing == [original |-> 0, polygonSvg |-> FALSE, displaySvg |-> FALSE]

\* the page as loaded: nothing drawn, the summon button disabled, no file
\* being read, no dialog
UiIdle ==
  /\ draw = EmptyDrawing
  /\ summonButton = "disabled"
  /\ readers = {}
  /\ pendingSVGFiles = 0
  /\ replaceConfirmDialog = "hidden"

\* no batch conversion is under way
BatchIdle ==
  /\ bPc = "idle"
  /\ batch = <<>>
  /\ bAcc = <<>>
  /\ resultDisplay = 0
  /\ UiIdle

\* no decomposition is under way
DecIdle ==
  /\ dcPc = "idle"
  /\ dcPolygon = None
  /\ dcInput = None
  /\ dcTess = <<>>
  /\ dcPolygons = <<>>
  /\ tessCalled = FALSE
  /\ tessMesh = {}

\* ----------------------------------------------- the Display tree, by calls
\* Calls on Displays as the callers of display.js make them: nestedDisplay on
\* a list of distinct trees, addPassenger of one tree to the root of another,
\* scale and move on a root.

\* the Displays present at the start
NumDisplays == 3

\* the calls of one behaviour
MaxOps == 3

\* the anchors the Displays are constructed at
Anchors == {<<0, 0>>, <<2, 4>>}

\* the side vectors the Displays are constructed with
UnitSides == <<<<2, 0>>, <<0, 2>>>>

\* the arguments of move
MoveTargets == {<<0, 0>>, <<6, 2>>}

\* the arguments of scale
ScaleFactors == {3}

RECURSIVE freshDisplays(_, _, _)
\* new Display(at[k], sides) for k = 1 .. n, each position an array of its own
freshDisplays(h, at, k) ==
  IF k > Len(at) THEN h
  ELSE LET h1 == allocArr(h, at[k])
       IN  freshDisplays(newDisplay(h1, Len(h1.arr), UnitSides), at, k + 1)

\* the sequences without repetition over the set S, of length 1 .. Cardinality(S)
ListsOver(S) ==
  {l \in UNION {[1 .. n -> S] : n \in 1 .. Cardinality(S)} :
     \A i, j \in DOMAIN l : i # j => l[i] # l[j]}

TreeInit ==
  /\ \E at \in [1 .. NumDisplays -> Anchors] : heap = freshDisplays(EmptyHeap, at, 1)
  /\ op = NoOp
  /\ steps = 0
  /\ ConvIdle
  /\ DecIdle
  /\ BatchIdle

\* Display.nestedDisplay(list) on a list of distinct roots
NestedDisplayCall ==
  /\ steps < MaxOps
  /\ \E list \in ListsOver(Roots(heap)) :
       /\ heap' = nestedDisplay(heap, list)
       /\ op' = [name |-> "nestedDisplay", list |-> list]
  /\ steps' = steps + 1
  /\ UNCHANGED <<convVars, decVars, batchVars>>

\* self.addPassenger(d) for two distinct roots
AddPassengerCall ==
  /\ steps < MaxOps
  /\ \E self \in Roots(heap), d \in Roots(heap) :
       /\ self # d
       /\ heap' = addPassenger(heap, self, d)
       /\ op' = [name |-> "addPassenger", self |-> self, d |-> d]
  /\ steps' = steps + 1
  /\ UNCHANGED <<convVars, decVars, batchVars>>

\* root.move(xy)
MoveCall ==
  /\ steps < MaxOps
  /\ \E self \in Roots(heap), xy \in MoveTargets :
       /\ heap' = move(heap, self, xy)
       /\ op' = [name |-> "move", self |-> self, xy |-> xy]
  /\ steps' = steps + 1
  /\ UNCHANGED <<convVars, decVars, batchVars>>

\* root.scale(k)
ScaleCall ==
  /\ steps < MaxOps
  /\ \E self \in Roots(heap), k \in ScaleFactors :
       /\ heap' = scaleDisplay(heap, self, k)
       /\ op' = [name |-> "scale", self |-> self, k |-> k]
  /\ steps' = steps + 1
  /\ UNCHANGED <<convVars, decVars, batchVars>>

TreeNext == NestedDisplayCall \/ AddPassengerCall \/ MoveCall \/ ScaleCall

SpecTree == TreeInit /\ [][TreeNext]_vars

\* the Displays of a list
ListMembers(list) == {list[i] : i \in DOMAIN list}

\* C1: Display.nestedDisplay(list) moves no primitive: every Display of the
\* list, and every descendant of one, has the same getAbsolutePosition()
\* (position + translation) after the call as before it.
C1_NestedDisplayKeepsAbsolutePositions ==
  [][(op'.name = "nestedDisplay" /\ steps' = steps + 1) =>
       \A d \in Subtree(heap, ListMembers(op'.list)) \cup Subtree(heap', ListMembers(op'.list)) :
          getAbsolutePosition(heap', d) = getAbsolutePosition(heap, d)]_vars

\* C1's case: nestedDisplay has just attached, to a base, a Display that has
\* passengers of its own and whose translation is not zero.
C1_Witness ==
  /\ op.name = "nestedDisplay"
  /\ Len(op.list) >= 2
  /\ \E i \in 2 .. Len(op.list) :
       /\ Len(heap.disp[op.list[i]].passengers) > 0
       /\ heap.disp[op.list[i]].translation # <<0, 0>>
       /\ \E c \in Subtree(heap, {op.list[i]}) \ {op.list[i]} :
            heap.disp[c].translation # <<0, 0>>

\* C2: in every state reached by nestedDisplay, addPassenger, scale and move
\* on roots, every non-root Display's position equals its parent's position.
C2_PassengerPositionIsParentPosition ==
  \A c \in Passengers(heap) : positionOf(heap, c) = positionOf(heap, ParentOf(heap, c))

\* C11: scale(k) on a Display multiplies both side vectors and the translation
\* of that Display and of every Display below it by exactly k, and leaves the
\* position of every Display (the array it refers to and the array's value)
\* as it was.
C11_ScaleMultipliesSubtree ==
  [][(op'.name = "scale" /\ steps' = steps + 1) =>
       /\ \A d \in Subtree(heap, {op'.self}) :
            /\ heap'.disp[d].sides[1] = scale(heap.disp[d].sides[1], op'.k)
            /\ heap'.disp[d].sides[2] = scale(heap.disp[d].sides[2], op'.k)
            /\ heap'.disp[d].translation = scale(heap.disp[d].translation, op'.k)
       /\ \A d \in DOMAIN heap.disp :
            /\ heap'.disp[d].position = heap.disp[d].position
            /\ positionOf(heap', d) = positionOf(heap, d)]_vars

\* C11's case: scale has just acted on a Display that has a passenger with a
\* passenger of its own, both with a translation that is not zero.
C11_Witness ==
  /\ op.name = "scale"
  /\ \E c \in DOMAIN heap.disp, g \in DOMAIN heap.disp :
       /\ c \in ListMembers(heap.disp[op.self].passengers)
       /\ g \in ListMembers(heap.disp[c].passengers)
       /\ heap.disp[c].translation # <<0, 0>>
       /\ heap.disp[g].translation # <<0, 0>>

SharePosition(h, self) == {d \in DOMAIN h.disp : h.disp[d].position = h.disp[self].position}

SpecNest == TreeInit /\ [][NestedDisplayCall]_vars

\* the position the Display was constructed with: display d of TreeInit got
\* array d, which no call of nestedDisplay writes to
ConstructedAt(h, d) == h.arr[d]

\* the Display has been in the list of a nestedDisplay call: its position is
\* no longer the array it was constructed with
WasNested(h, d) == h.disp[d].position # d

\* C27: in every tree built by nestedDisplay calls alone from Displays as
\* constructed, at any depth, every node has position (0,0) and as its
\* translation the position it was constructed with, which is therefore its
\* absolute position, whatever its parent's translation.
C27_TranslationIsAbsolute ==
  \A d \in DOMAIN heap.disp :
     WasNested(heap, d) =>
        /\ positionOf(heap, d) = <<0, 0>>
        /\ heap.disp[d].translation = ConstructedAt(heap, d)
        /\ getAbsolutePosition(heap, d) = ConstructedAt(heap, d)

\* C27's case: a tree of three levels, the root, a passenger and the
\* passenger's passenger, whose parent was not constructed at (0,0).
C27_Witness ==
  \E r, c, g \in DOMAIN heap.disp :
     /\ c \in ListMembers(heap.disp[r].passengers)
     /\ g \in ListMembers(heap.disp[c].passengers)
     /\ ConstructedAt(heap, c) # <<0, 0>>
     /\ ConstructedAt(heap, g) # ConstructedAt(heap, c)
     /\ heap.disp[g].translation = ConstructedAt(heap, g)

\* ------------------------------------------ the Display's fields, by calls
\* Setter calls on any Display, nbt and getTotalDisplayCount on any root, of a
\* forest that nestedDisplay has built over NumDisplays Displays.

\* the calls of one behaviour
MaxCalls == 2

\* the arguments of setDepth, in sixteenths
Depths == {2}

\* the arguments of setType
Types == {"block_display", "text_display", "item_display"}

\* the arguments of setBlockType
BlockTypes == {"stone"}

\* the arguments of setColor
ColorCodes == {-1}

\* NumDisplays new Displays side by side
FieldDisplays == freshDisplays(EmptyHeap, [k \in 1 .. NumDisplays |-> <<4 * k, 0>>], 1)

\* the forests of the start: the Displays apart, one nestedDisplay call over
\* the first n of them, and the chain that two calls make
FieldTrees ==
  {FieldDisplays}
  \cup {nestedDisplay(FieldDisplays, [i \in 1 .. n |-> i]) : n \in 1 .. NumDisplays}
  \cup {nestedDisplay(nestedDisplay(FieldDisplays, <<2, 3>>), <<1, 2>>)}

FieldsInit ==
  /\ heap \in FieldTrees
  /\ op = NoOp
  /\ steps = 0
  /\ ConvIdle
  /\ DecIdle
  /\ BatchIdle

\* n.setDepth(depth)
SetDepthCall ==
  /\ steps < MaxCalls
  /\ \E self \in DOMAIN heap.disp, depth \in Depths :
       /\ heap' = setDepth(heap, self, depth)
       /\ op' = [name |-> "setDepth", self |-> self, value |-> depth]
  /\ steps' = steps + 1
  /\ UNCHANGED <<convVars, decVars, batchVars>>

\* n.setType(type)
SetTypeCall ==
  /\ steps < MaxCalls
  /\ \E self \in DOMAIN heap.disp, type \in Types :
       /\ heap' = setType(heap, self, type)
       /\ op' = [name |-> "setType", self |-> self, value |-> type]
  /\ steps' = steps + 1
  /\ UNCHANGED <<convVars, decVars, batchVars>>

\* n.setBlockType(blockType)
SetBlockTypeCall ==
  /\ steps < MaxCalls
  /\ \E self \in DOMAIN heap.disp, blockType \in BlockTypes :
       /\ heap' = setBlockType(heap, self, blockType)
       /\ op' = [name |-> "setBlockType", self |-> self, value |-> blockType]
  /\ steps' = steps + 1
  /\ UNCHANGED <<convVars, decVars, batchVars>>

\* n.setColor(colorCode)
SetColorCall ==
  /\ steps < MaxCalls
  /\ \E self \in DOMAIN heap.disp, colorCode \in ColorCodes :
       /\ heap' = setColor(heap, self, colorCode)
       /\ op' = [name |-> "setColor", self |-> self, value |-> colorCode]
  /\ steps' = steps + 1
  /\ UNCHANGED <<convVars, decVars, batchVars>>

\* root.nbt()
NbtCall ==
  /\ \E self \in Roots(heap) :
       op' = [name |-> "nbt", self |-> self, result |-> nbt(heap, self)]
  /\ UNCHANGED <<heap, steps, convVars, decVars, batchVars>>

\* root.getTotalDisplayCount()
GetTotalDisplayCountCall ==
  /\ \E self \in Roots(heap) :
       op' = [name |-> "getTotalDisplayCount", self |-> self,
              result |-> getTotalDisplayCount(heap, self)]
  /\ UNCHANGED <<heap, steps, convVars, decVars, batchVars>>

FieldsNext ==
  \/ SetDepthCall
  \/ SetTypeCall
  \/ SetBlockTypeCall
  \/ SetColorCall
  \/ NbtCall
  \/ GetTotalDisplayCountCall

SpecFields == FieldsInit /\ [][FieldsNext]_vars

\* the fields of a Display
DisplayFields ==
  {"type", "state", "colorCode", "passengers", "sides", "depth", "position", "translation"}

\* the field a setter is to assign, and the value it is to hold afterwards
SetterField ==
  [setDepth |-> "depth", setType |-> "type", setBlockType |-> "state", setColor |-> "colorCode"]

SetterValue(call) == IF call.name = "setBlockType" THEN [Name |-> call.value] ELSE call.value

\* C12: after setDepth, setBlockType, setColor, or setType with one of the two
\* display types, on a Display n, n and every Display below n hold the new
\* value of that one field, and no other field of any Display, no Display
\* outside n's subtree and no position array is changed; setType with any
\* other value changes nothing.
C12_SettersReachSubtreeOnly ==
  [][(op'.name \in DOMAIN SetterField /\ steps' = steps + 1) =>
       IF op'.name = "setType" /\ op'.value \notin {"block_display", "text_display"}
       THEN heap' = heap
       ELSE /\ heap'.arr = heap.arr
            /\ DOMAIN heap'.disp = DOMAIN heap.disp
            /\ \A d \in DOMAIN heap.disp, f \in DisplayFields :
                 heap'.disp[d][f] =
                   IF d \in Subtree(heap, {op'.self}) /\ f = SetterField[op'.name]
                   THEN SetterValue(op')
                   ELSE heap.disp[d][f]]_vars

\* C12's case: a setter has just acted on a Display that has a passenger and
\* is itself a passenger, and the Display above it holds another value.
C12_Witness ==
  /\ op.name \in DOMAIN SetterField
  /\ Len(heap.disp[op.self].passengers) > 0
  /\ op.self \in Passengers(heap)
  /\ \A d \in Subtree(heap, {op.self}) : heap.disp[d][SetterField[op.name]] = SetterValue(op)
  /\ heap.disp[ParentOf(heap, op.self)][SetterField[op.name]] # SetterValue(op)

RECURSIVE RecordCount(_)
\* the records of an nbt structure: the record itself and every record nested
\* under Passengers
RecordCount(r) ==
  IF "Passengers" \in DOMAIN r
  THEN 1 + SumTo([i \in 0 .. (Len(r.Passengers) - 1) |-> RecordCount(r.Passengers[i + 1])],
                 Len(r.Passengers))
  ELSE 1

RECURSIVE PassengersListed(_, _, _)
\* the record r of Display d has a Passengers list exactly when d has a
\* passenger, the list has one record per passenger, and so on below
PassengersListed(h, r, d) ==
  LET ps == h.disp[d].passengers
  IN  /\ ("Passengers" \in DOMAIN r) <=> (Len(ps) > 0)
      /\ "Passengers" \in DOMAIN r =>
            /\ Len(r.Passengers) = Len(ps)
            /\ \A i \in DOMAIN ps : PassengersListed(h, r.Passengers[i], ps[i])

\* C13: for any Display tree, getTotalDisplayCount() equals the number of
\* nodes of the tree, which equals the number of records in the structure
\* nbt() returns; a record has a Passengers list exactly when its node has at
\* least one passenger.
C13_CountIsNodesIsRecords ==
  /\ \A d \in DOMAIN heap.disp :
       /\ getTotalDisplayCount(heap, d) = Cardinality(Subtree(heap, {d}))
       /\ RecordCount(nbt(heap, d)) = Cardinality(Subtree(heap, {d}))
       /\ PassengersListed(heap, nbt(heap, d), d)
  /\ op.name = "getTotalDisplayCount" => op.result = Cardinality(Subtree(heap, {op.self}))
  /\ op.name = "nbt" =>
       /\ RecordCount(op.result) = getTotalDisplayCount(heap, op.self)
       /\ PassengersListed(heap, op.result, op.self)

\* C13's case: nbt has just been called on the root of a chain of three
\* Displays, whose last Display has no passenger, and gave three records.
C13_Witness ==
  /\ op.name = "nbt"
  /\ RecordCount(op.result) = 3
  /\ \E c \in ListMembers(heap.disp[op.self].passengers) :
       \E g \in ListMembers(heap.disp[c].passengers) : Len(heap.disp[g].passengers) = 0

\* ------------------------------------- the Display tree, by any calls
\* addPassenger and nestedDisplay with any Displays as arguments: a Display
\* and itself, a Display that is a passenger already, a list that names a
\* Display twice.  Neither method tests its arguments.

\* the non-empty lists over the Displays, of length up to NumDisplays
AnyLists == UNION {[1 .. n -> 1 .. NumDisplays] : n \in 1 .. NumDisplays}

OwnInit ==
  /\ heap = FieldDisplays
  /\ op = NoOp
  /\ steps = 0
  /\ ConvIdle
  /\ DecIdle
  /\ BatchIdle

\* self.addPassenger(d), any two Displays
AddPassengerAnyCall ==
  /\ steps < MaxCalls
  /\ \E self \in DOMAIN heap.disp, d \in DOMAIN heap.disp :
       /\ heap' = addPassenger(heap, self, d)
       /\ op' = [name |-> "addPassenger", self |-> self, d |-> d]
  /\ steps' = steps + 1
  /\ UNCHANGED <<convVars, decVars, batchVars>>

\* Display.nestedDisplay(list), any non-empty list
NestedDisplayAnyCall ==
  /\ steps < MaxCalls
  /\ \E list \in AnyLists :
       /\ heap' = nestedDisplay(heap, list)
       /\ op' = [name |-> "nestedDisplay", list |-> list]
  /\ steps' = steps + 1
  /\ UNCHANGED <<convVars, decVars, batchVars>>

OwnNext == AddPassengerAnyCall \/ NestedDisplayAnyCall

SpecOwn == OwnInit /\ [][OwnNext]_vars

\* the Displays below d: its passengers, their passengers, and so on
Below(h, d) == Subtree(h, ListMembers(h.disp[d].passengers))

\* C19: after any sequence of addPassenger and nestedDisplay calls over a set
\* of Displays the passenger relation is a forest: no Display is a passenger of
\* two different parents or appears twice in one passengers list, and no
\* Display is its own ancestor.
C19_PassengersFormForest ==
  /\ \A d \in DOMAIN heap.disp :
       \A i, j \in DOMAIN heap.disp[d].passengers :
          i # j => heap.disp[d].passengers[i] # heap.disp[d].passengers[j]
  /\ \A c \in DOMAIN heap.disp :
       Cardinality({d \in DOMAIN heap.disp : c \in ListMembers(heap.disp[d].passengers)}) <= 1
  /\ \A d \in DOMAIN heap.disp : d \notin Below(heap, d)

\* ------------------------------------- one Display's geometry, by inputs
\* getTransformation and getVertices of a Display constructed with any two
\* side vectors of a grid, left alone or made the passenger of another
\* Display, of either type and of either depth.

\* the side vectors have components -2 * SideSteps .. 2 * SideSteps, even
SideSteps == 1

SideVectors == {<<2 * i, 2 * j>> : i, j \in (0 - SideSteps) .. SideSteps}

\* new Display([1, 2], UnitSides) and new Display([3, 1], [u, v])
QuadDisplays(u, v) ==
  LET h1 == freshDisplays(EmptyHeap, <<<<2, 4>>>>, 1)
      h2 == allocArr(h1, <<6, 2>>)
  IN  newDisplay(h2, Len(h2.arr), <<u, v>>)

QuadInit ==
  /\ \E u, v \in SideVectors, nested \in BOOLEAN,
        type \in {"block_display", "text_display"}, depth \in {1} \cup Depths :
       \E h \in {QuadDisplays(u, v)} :
          heap = setDepth(setType(IF nested THEN addPassenger(h, 1, 2) ELSE h, 2, type), 2, depth)
  /\ op = NoOp
  /\ steps = 0
  /\ ConvIdle
  /\ DecIdle
  /\ BatchIdle

\* d.getTransformation()
GetTransformationCall ==
  /\ \E self \in DOMAIN heap.disp :
       op' = [name |-> "getTransformation", self |-> self,
              result |-> getTransformation(heap, self)]
  /\ UNCHANGED <<heap, steps, convVars, decVars, batchVars>>

\* d.getVertices()
GetVerticesCall ==
  /\ \E self \in DOMAIN heap.disp :
       op' = [name |-> "getVertices", self |-> self, result |-> getVertices(heap, self)]
  /\ UNCHANGED <<heap, steps, convVars, decVars, batchVars>>

QuadNext == GetTransformationCall \/ GetVerticesCall

SpecQuad == QuadInit /\ [][QuadNext]_vars

\* C14, as claimed: for a block_display, row 1 of getTransformation() holds
\* side0's two components and translation.x, row 2 the components of -side1
\* and -translation.y, row 3 is (0, 0, -depth, 0) and row 4 is (0, 0, 0, 1).
C14_RowsAreSides ==
  (op.name = "getTransformation" /\ heap.disp[op.self].type = "block_display") =>
     LET d == heap.disp[op.self]
         m == op.result
     IN  /\ Len(m) = 4 /\ \A i \in 1 .. 4 : Len(m[i]) = 4
         /\ m[1][1] = 5 * d.sides[1][1] /\ m[1][2] = 5 * d.sides[1][2]
         /\ m[1][4] = 5 * d.translation[1]
         /\ m[2][1] = -(5 * d.sides[2][1]) /\ m[2][2] = -(5 * d.sides[2][2])
         /\ m[2][4] = -(5 * d.translation[2])
         /\ m[3] = <<0, 0, -d.depth, 0>>
         /\ m[4] = <<0, 0, 0, 1>>

\* C14, amended: for a block_display, the side vectors are the columns of
\* getTransformation(): row 1 is (side0.x, side1.x, 0, translation.x), row 2
\* is (-side0.y, -side1.y, 0, -translation.y), row 3 is (0, 0, -depth, 0)
\* and row 4 is (0, 0, 0, 1).
C14_ColumnsAreSides ==
  (op.name = "getTransformation" /\ heap.disp[op.self].type = "block_display") =>
     LET d == heap.disp[op.self]
     IN  op.result =
           << <<5 * d.sides[1][1], 5 * d.sides[2][1], 0, 5 * d.translation[1]>>,
              <<-(5 * d.sides[1][2]), -(5 * d.sides[2][2]), 0, -(5 * d.translation[2])>>,
              <<0, 0, -d.depth, 0>>,
              <<0, 0, 0, 1>> >>

\* C14's case: getTransformation has just been called on a block_display
\* whose side0.y and side1.x differ and whose translation is not zero.
C14_Witness ==
  /\ op.name = "getTransformation"
  /\ heap.disp[op.self].type = "block_display"
  /\ heap.disp[op.self].sides[1][2] # heap.disp[op.self].sides[2][1]
  /\ heap.disp[op.self].translation[1] # 0
  /\ heap.disp[op.self].translation[2] # 0
  /\ heap.disp[op.self].depth # 1

\* the shoelace sum of a ring, signed: twice its signed area
Shoelace(pts) ==
  SumTo([i \in Idx(pts) |->
           At(pts, i)[1] * At(pts, i + 1)[2] - At(pts, i + 1)[1] * At(pts, i)[2]], Len(pts))

\* C15: for every pair of side vectors, getVertices() returns 4 corner points
\* (the corners of the parallelogram the sides span) starting at
\* getAbsolutePosition() whose shoelace signed area is never negative.
C15_VerticesNeverClockwise ==
  op.name = "getVertices" =>
     /\ Len(op.result) = 4
     /\ op.result[1] = getAbsolutePosition(heap, op.self)
     /\ {op.result[i] : i \in 1 .. 4} =
          {add(getAbsolutePosition(heap, op.self), w) :
             w \in {<<0, 0>>, heap.disp[op.self].sides[1], heap.disp[op.self].sides[2],
                    add(heap.disp[op.self].sides[1], heap.disp[op.self].sides[2])}}
     /\ Shoelace(op.result) >= 0

\* C15's case: getVertices has just been called on a Display whose side1 is
\* the longer side and whose cross(side0, side1) is negative.
C15_Witness ==
  /\ op.name = "getVertices"
  /\ cross(heap.disp[op.self].sides[1], heap.disp[op.self].sides[2]) < 0
  /\ length2(heap.disp[op.self].sides[2]) > length2(heap.disp[op.self].sides[1])
  /\ Shoelace(op.result) > 0

\* ------------------------------------------- convexToDisplay, by inputs
\* One call of convexToDisplay(polygon, boundary) on an input drawn from: every
\* ring of 3 or 4 distinct points of a square grid with itself as boundary
\* (either winding, degenerate and self-crossing rings included), with the
\* square the grid fills or with a wider square as boundary, the rings of
\* fewer than 3 points, and pieces of named boundary polygons.

\* the grid has (GridSteps + 1)^2 points, 4 model units (2 program units) apart
GridSteps == 2

GridPoints == {<<4 * i, 4 * j>> : i, j \in 0 .. GridSteps}

\* the rings of n distinct grid points
GridRings(n) ==
  {r \in [1 .. n -> GridPoints] : \A i, j \in 1 .. n : i # j => r[i] # r[j]}

\* the program's triangle [(0,0),(4,0),(0,4)]
RightTriangle == Polygon(<<<<0, 0>>, <<8, 0>>, <<0, 8>>>>, <<>>)

\* the program's square [(0,0),(6,0),(6,6),(0,6)] with the hole [(1,2),(1,5),(4,5)]
HoledSquare ==
  Polygon(<<<<0, 0>>, <<12, 0>>, <<12, 12>>, <<0, 12>>>>, <<<<<<2, 4>>, <<2, 10>>, <<8, 10>>>>>>)

\* the program's L-shaped hexagon [(0,0),(2,0),(2,1),(1,1),(1,2),(0,2)]
LShape == Polygon(<<<<0, 0>>, <<4, 0>>, <<4, 2>>, <<2, 2>>, <<2, 4>>, <<0, 4>>>>, <<>>)

\* the program's pentagon [(0,0),(4,0),(6,2),(4,4),(0,4)]
Pentagon == Polygon(<<<<0, 0>>, <<8, 0>>, <<12, 4>>, <<8, 8>>, <<0, 8>>>>, <<>>)

\* the program's unit square [(0,0),(1,0),(1,1),(0,1)]
UnitSquare == Polygon(<<<<0, 0>>, <<2, 0>>, <<2, 2>>, <<0, 2>>>>, <<>>)

\* the square the grid fills
GridHull ==
  Polygon(<<<<0, 0>>, <<4 * GridSteps, 0>>, <<4 * GridSteps, 4 * GridSteps>>,
            <<0, 4 * GridSteps>>>>, <<>>)

\* the square that reaches one grid step beyond the grid on every side
GridFrame ==
  Polygon(<<<<-4, -4>>, <<4 * GridSteps + 4, -4>>, <<4 * GridSteps + 4, 4 * GridSteps + 4>>,
            <<-4, 4 * GridSteps + 4>>>>, <<>>)

\* a convex piece with the boundary polygon it was cut from
PiecesWithBoundary ==
  { [polygon |-> Polygon(<<<<0, 0>>, <<12, 0>>, <<12, 12>>>>, <<>>), boundary |-> HoledSquare],
    [polygon |-> Polygon(<<<<0, 0>>, <<12, 0>>, <<12, 12>>, <<8, 10>>>>, <<>>), boundary |-> HoledSquare],
    [polygon |-> Polygon(<<<<0, 0>>, <<4, 0>>, <<4, 2>>>>, <<>>), boundary |-> LShape],
    [polygon |-> Polygon(<<<<0, 0>>, <<4, 0>>, <<4, 2>>, <<2, 2>>>>, <<>>), boundary |-> LShape],
    [polygon |-> Polygon(<<<<0, 0>>, <<2, 2>>, <<2, 4>>, <<0, 4>>>>, <<>>), boundary |-> LShape],
    [polygon |-> Pentagon, boundary |-> Pentagon],
    [polygon |-> UnitSquare, boundary |-> UnitSquare] }

\* the boundary polygon passed with the ring r: the ring itself, the square
\* the grid fills, or the wider square
BoundaryOf(r, kind) ==
  IF kind = "self" THEN Polygon(r, <<>>) ELSE IF kind = "hull" THEN GridHull ELSE GridFrame

ConvInputs ==
  {[polygon |-> Polygon(r, <<>>), boundary |-> BoundaryOf(r, kind)] :
     r \in GridRings(3) \cup GridRings(4) \cup GridRings(2) \cup GridRings(1) \cup {<<>>},
     kind \in {"self", "hull", "frame"}}
  \cup PiecesWithBoundary

ConvInit ==
  /\ heap = EmptyHeap
  /\ op = NoOp
  /\ steps = 0
  /\ pc = "call"
  /\ cvIn \in ConvInputs
  /\ cvOut = None
  /\ DecIdle
  /\ BatchIdle

\* convexToDisplay(cvIn.polygon, cvIn.boundary)
ConvexToDisplayCall ==
  /\ pc = "call"
  /\ LET r == convexToDisplay(heap, cvIn.polygon, cvIn.boundary)
     IN  /\ heap' = r.heap
         /\ cvOut' = [thrown |-> r.thrown, root |-> r.root, wedges |-> r.wedges]
  /\ pc' = "done"
  /\ UNCHANGED <<op, steps, cvIn, decVars, batchVars>>

ConvNext == ConvexToDisplayCall

SpecConv == ConvInit /\ [][ConvNext]_vars

\* the result's getTotalDisplayCount(), 0 when the call threw
ResultCount == IF cvOut.thrown THEN 0 ELSE getTotalDisplayCount(heap, cvOut.root)

\* C3, as claimed: convexToDisplay of the triangle [(0,0),(4,0),(0,4)] with
\* itself as boundary returns exactly 1 Display.
C3_RightTriangleGivesOneDisplay ==
  (pc = "done" /\ cvIn = [polygon |-> RightTriangle, boundary |-> RightTriangle]) =>
     (~cvOut.thrown /\ ResultCount = 1)

\* the three parallelogram-completion points of a triangle
Candidates(pts) ==
  {add(pts[1], sub(pts[2], pts[3])), add(pts[2], sub(pts[3], pts[1])), add(pts[3], sub(pts[1], pts[2]))}

\* C3, amended: convexToDisplay of the triangle [(0,0),(4,0),(0,4)] with itself
\* as boundary returns the fallback tree of 3 Displays, a root with two
\* passengers, and none of the three candidate fourth points is inside.
C3_RightTriangleGivesThreeDisplays ==
  (pc = "done" /\ cvIn = [polygon |-> RightTriangle, boundary |-> RightTriangle]) =>
     /\ ~cvOut.thrown
     /\ ResultCount = 3
     /\ Len(heap.disp[cvOut.root].passengers) = 2
     /\ cvOut.wedges = <<Wedge(<<1, 2, 3>>, FALSE)>>

\* C3's case: the call on the right triangle has returned.
C3_Witness ==
  /\ pc = "done"
  /\ cvIn = [polygon |-> RightTriangle, boundary |-> RightTriangle]
  /\ ~cvOut.thrown
  /\ \A c \in Candidates(RightTriangle.points) : ~isInside(RightTriangle, c)

\* the four corners of Display d: its absolute position a, a + side0,
\* a + side0 + side1, a + side1
CornersOf(h, d) ==
  LET a == getAbsolutePosition(h, d)
      u == h.disp[d].sides[1]
      v == h.disp[d].sides[2]
  IN  <<a, add(a, u), add(add(a, u), v), add(a, v)>>

\* the integer points of the bounding box of a set of points
LatticeBox(P) ==
  LET xs == {q[1] : q \in P}
      ys == {q[2] : q \in P}
      lo(S) == CHOOSE m \in S : \A x \in S : m <= x
      hi(S) == CHOOSE m \in S : \A x \in S : m >= x
  IN  {<<x, y>> : x \in lo(xs) .. hi(xs), y \in lo(ys) .. hi(ys)}

\* pt lies in the closed convex ring pts, whichever way the ring winds
InConvexRing(pts, pt) ==
  \/ \A i \in Idx(pts) : orient(At(pts, i), At(pts, i + 1), pt) >= 0
  \/ \A i \in Idx(pts) : orient(At(pts, i), At(pts, i + 1), pt) <= 0

\* the integer points of a closed convex ring of non-zero area
LatticePointsOf(pts) ==
  IF getSimpleArea2(pts) = 0 THEN {}
  ELSE {pt \in LatticeBox({pts[i] : i \in DOMAIN pts}) : InConvexRing(pts, pt)}

\* the converter's precondition: the piece is convex and lies in the filled
\* region of the boundary polygon
PieceInBoundary ==
  /\ isConvex(cvIn.polygon)
  /\ \A pt \in LatticePointsOf(cvIn.polygon.points) : isInside(cvIn.boundary, pt)

\* C4: whenever convexToDisplay emits a single parallelogram for a triangle or
\* a fan wedge because a candidate passed both isSegmentInside tests, every
\* point of the parallelogram (here: every integer point) lies in the filled
\* region of the boundary polygon, inside the outer ring and in no hole.
C4_SingleParallelogramInsideBoundary ==
  (pc = "done" /\ ~cvOut.thrown /\ PieceInBoundary) =>
     \A k \in DOMAIN cvOut.wedges :
        cvOut.wedges[k].single =>
           \A pt \in LatticePointsOf(CornersOf(heap, cvOut.wedges[k].displays[1])) :
              isInside(cvIn.boundary, pt)

\* C9, as claimed: convexToDisplay throws for every polygon that is not convex
\* per isConvex() or has fewer than 3 points.
C9_ThrowsUnlessConvex ==
  (pc = "done" /\ (~isConvex(cvIn.polygon) \/ Len(cvIn.polygon.points) < 3)) => cvOut.thrown

\* C9, amended: convexToDisplay throws, and creates no Display, for every
\* polygon that is neither a hole-free 3-point ring nor accepted by
\* isParallelogram() and that is not convex per isConvex() or has fewer than
\* 3 points; for a hole-free 3-point ring and for a ring accepted by
\* isParallelogram() it returns a Display whatever isConvex() says.
C9_ThrowsUnlessConvexOrSpecialCase ==
  pc = "done" =>
     /\ (~isTriangle(cvIn.polygon) /\ ~isParallelogram(cvIn.polygon)
         /\ (~isConvex(cvIn.polygon) \/ Len(cvIn.polygon.points) < 3))
          => (cvOut.thrown /\ heap.disp = <<>>)
     /\ (isTriangle(cvIn.polygon) \/ isParallelogram(cvIn.polygon))
          => (~cvOut.thrown /\ cvOut.root \in DOMAIN heap.disp)

\* C9's case: the call threw on a ring of 4 points that is not convex and no
\* parallelogram.
C9_Witness ==
  /\ pc = "done"
  /\ cvOut.thrown
  /\ Len(cvIn.polygon.points) = 4
  /\ ~isParallelogram(cvIn.polygon)
  /\ ~isConvex(cvIn.polygon)

CandidatePasses(boundary, c, a, b) ==
  isSegmentInside(boundary, c, a) /\ isSegmentInside(boundary, c, b)

\* the three candidates of the triangle pts, in the order tested, each with the
\* two vertices its new edges go to
CandidateTests(pts) ==
  << [c |-> add(pts[1], sub(pts[2], pts[3])), a |-> pts[1], b |-> pts[2]],
     [c |-> add(pts[2], sub(pts[3], pts[1])), a |-> pts[2], b |-> pts[3]],
     [c |-> add(pts[3], sub(pts[1], pts[2])), a |-> pts[3], b |-> pts[1]] >>

\* the candidates of the triangle pts that pass, by their place in the order
PassingCandidates(pts, boundary) ==
  {k \in 1 .. 3 : CandidatePasses(boundary, CandidateTests(pts)[k].c,
                                   CandidateTests(pts)[k].a, CandidateTests(pts)[k].b)}

\* m is the midpoint of a and b
IsMidpoint(m, a, b) == scale(m, 2) = add(a, b)

\* the triangle <<a, b, c>> lies in the parallelogram of Display d
TriangleInDisplay(h, d, a, b, c) ==
  \A pt \in {a, b, c} : InConvexRing(CornersOf(h, d), pt)

\* C17: when all three candidates of a triangle fail the isSegmentInside tests,
\* convexToDisplay returns one tree of exactly 3 Displays, a root with 2
\* passengers, the k-th anchored at the k-th vertex with sides half of the two
\* edges leaving it; every corner of each is a vertex or an edge midpoint, and
\* the three cover the triangle: each of the four triangles that the edge
\* midpoints cut it into lies in one of the parallelograms.
C17_FallbackIsThreeHalfParallelograms ==
  (pc = "done" /\ isTriangle(cvIn.polygon)
     /\ PassingCandidates(cvIn.polygon.points, cvIn.boundary) = {}) =>
     LET pts == cvIn.polygon.points
         mid == [k \in 0 .. 2 |-> half(add(At(pts, k), At(pts, k + 1)))]
     IN  /\ ~cvOut.thrown
         /\ ResultCount = 3
         /\ DOMAIN heap.disp = 1 .. 3
         /\ Len(heap.disp[cvOut.root].passengers) = 2
         /\ \A k \in 0 .. 2 :
              /\ getAbsolutePosition(heap, k + 1) = At(pts, k)
              /\ scale(heap.disp[k + 1].sides[1], 2) = sub(At(pts, k + 1), At(pts, k))
              /\ scale(heap.disp[k + 1].sides[2], 2) = sub(At(pts, k + 2), At(pts, k))
              /\ \A i \in 1 .. 4 :
                   \/ \E j \in 0 .. 2 : CornersOf(heap, k + 1)[i] = At(pts, j)
                   \/ \E j \in 0 .. 2 : IsMidpoint(CornersOf(heap, k + 1)[i], At(pts, j), At(pts, j + 1))
              /\ TriangleInDisplay(heap, k + 1, At(pts, k), mid[k], mid[(k + 2) % 3])
         /\ \E d \in 1 .. 3 : TriangleInDisplay(heap, d, mid[0], mid[1], mid[2])

\* C17's case: the call has returned the three Displays for a triangle of
\* non-zero area none of whose sides is parallel to an axis.
C17_Witness ==
  /\ pc = "done"
  /\ isTriangle(cvIn.polygon)
  /\ PassingCandidates(cvIn.polygon.points, cvIn.boundary) = {}
  /\ ResultCount = 3
  /\ getSimpleArea2(cvIn.polygon.points) > 0
  /\ \A k \in 0 .. 2 :
       /\ At(cvIn.polygon.points, k)[1] # At(cvIn.polygon.points, k + 1)[1]
       /\ At(cvIn.polygon.points, k)[2] # At(cvIn.polygon.points, k + 1)[2]

\* the first of the candidates that pass
FirstPassing(pts, boundary) ==
  CHOOSE k \in PassingCandidates(pts, boundary) :
    \A j \in PassingCandidates(pts, boundary) : k <= j

\* C20: for a triangle (p0, p1, p2), convexToDisplay returns the single
\* Display of the first of the candidates pA, pB, pC whose two new edges both
\* pass isSegmentInside: it is anchored at the vertex the candidate was built
\* on, its sides go to the vertex before it and to the candidate, and its
\* four corners are p0, p1, p2 and the winning candidate.
C20_FirstPassingCandidateWins ==
  (pc = "done" /\ isTriangle(cvIn.polygon)
     /\ PassingCandidates(cvIn.polygon.points, cvIn.boundary) # {}) =>
     LET pts == cvIn.polygon.points
         w == FirstPassing(pts, cvIn.boundary)
         t == CandidateTests(pts)[w]
     IN  /\ ~cvOut.thrown
         /\ ResultCount = 1
         /\ DOMAIN heap.disp = {cvOut.root}
         /\ getAbsolutePosition(heap, cvOut.root) = t.a
         /\ heap.disp[cvOut.root].sides = <<sub(At(pts, w + 1), t.a), sub(t.c, t.a)>>
         /\ {CornersOf(heap, cvOut.root)[i] : i \in 1 .. 4} = {pts[1], pts[2], pts[3], t.c}

\* C20's case: the call has returned one Display for a triangle of non-zero
\* area whose first candidate fails and whose second and third pass.
C20_Witness ==
  /\ pc = "done"
  /\ isTriangle(cvIn.polygon)
  /\ getSimpleArea2(cvIn.polygon.points) > 0
  /\ PassingCandidates(cvIn.polygon.points, cvIn.boundary) = {2, 3}
  /\ ResultCount = 1
  /\ getAbsolutePosition(heap, cvOut.root) = cvIn.polygon.points[2]

\* the 0-based indices i of the edges (i, i + 1) of a ring of n points that are
\* not incident to the vertex apex
FanEdges(n, apex) == {i \in 0 .. (n - 1) : i # apex /\ (i + 1) % n # apex}

\* the Displays of the tree under root cover the triangle <<a, b, c>>: it lies
\* in one of them, or each of the four triangles that its edge midpoints cut
\* it into does
TreeCovers(h, root, a, b, c) ==
  LET ds == Subtree(h, {root})
      mab == half(add(a, b))
      mbc == half(add(b, c))
      mca == half(add(c, a))
  IN  \/ \E d \in ds : TriangleInDisplay(h, d, a, b, c)
      \/ /\ \E d \in ds : TriangleInDisplay(h, d, a, mab, mca)
         /\ \E d \in ds : TriangleInDisplay(h, d, b, mbc, mab)
         /\ \E d \in ds : TriangleInDisplay(h, d, c, mca, mbc)
         /\ \E d \in ds : TriangleInDisplay(h, d, mab, mbc, mca)

\* the case of C18: the call is over for a convex ring of 4 or more points that
\* is no parallelogram
FanCase ==
  /\ pc = "done"
  /\ Len(cvIn.polygon.points) >= 4
  /\ isConvex(cvIn.polygon)
  /\ ~isParallelogram(cvIn.polygon)

\* C18: for a convex polygon of n >= 4 points that is not a parallelogram,
\* convexToDisplay processes exactly the n - 2 fan triangles (apex, p_i,
\* p_i+1) over the edges not incident to the apex, emits 1 or 3 Displays for
\* each, and returns a flat tree (every other Display is a passenger of the
\* first and has no passenger) of between n - 2 and 3(n - 2) Displays that
\* cover every fan triangle.
C18_FanIsFlatAndCovers ==
  FanCase =>
     LET pts == cvIn.polygon.points
         n == Len(pts)
         apex == getMaxInteriorAngleIndex(cvIn.polygon)
     IN  /\ ~cvOut.thrown
         /\ apex \in 0 .. (n - 1)
         /\ Len(cvOut.wedges) = n - 2
         /\ Cardinality(FanEdges(n, apex)) = n - 2
         /\ \A k \in DOMAIN cvOut.wedges : Len(cvOut.wedges[k].displays) \in {1, 3}
         /\ ResultCount = SumTo([k \in 0 .. (n - 3) |-> Len(cvOut.wedges[k + 1].displays)], n - 2)
         /\ ResultCount = Cardinality(DOMAIN heap.disp)
         /\ n - 2 <= ResultCount /\ ResultCount <= 3 * (n - 2)
         /\ cvOut.root = 1
         /\ heap.disp[cvOut.root].passengers = [i \in 1 .. (ResultCount - 1) |-> i + 1]
         /\ \A d \in DOMAIN heap.disp : d # cvOut.root => heap.disp[d].passengers = <<>>
         /\ \A i \in FanEdges(n, apex) :
              TreeCovers(heap, cvOut.root, At(pts, apex), At(pts, i), At(pts, i + 1))

\* C18's case: the call has returned, for a ring of non-zero area, a tree in
\* which one fan triangle has one Display and another has three.
C18_Witness ==
  /\ FanCase
  /\ ~cvOut.thrown
  /\ getSimpleArea2(cvIn.polygon.points) > 0
  /\ \E j, k \in DOMAIN cvOut.wedges :
       Len(cvOut.wedges[j].displays) = 1 /\ Len(cvOut.wedges[k].displays) = 3

\* --------------------------------------- convexDecomposition, step by step
\* One call of convexDecomposition: the early return or the call of the
\* tessellator, the triangles the tessellator hands back one by one, the
\* filter of toTriangles, then the passes of the while loop.

\* a concave quadrilateral, its reflex vertex at model (4, 2)
Dart == Polygon(<<<<0, 0>>, <<4, 2>>, <<8, 0>>, <<4, 8>>>>, <<>>)

\* a triangle with a triangular hole
HoledTriangle ==
  Polygon(<<<<0, 0>>, <<12, 0>>, <<0, 12>>>>, << <<<<2, 2>>, <<2, 6>>, <<6, 2>>>> >>)

\* the triangle of C3 wound clockwise
ClockwiseTriangle == Polygon(<<<<0, 0>>, <<0, 8>>, <<8, 0>>>>, <<>>)

\* a square wound clockwise
ClockwiseSquare == Polygon(<<<<0, 0>>, <<0, 4>>, <<4, 4>>, <<4, 0>>>>, <<>>)

\* a counterclockwise square with one more vertex in the middle of a side
SquareWithMidpoint == Polygon(<<<<0, 0>>, <<4, 0>>, <<8, 0>>, <<8, 8>>, <<0, 8>>>>, <<>>)

\* the corners of a square, the middle of its upper side and a point inside
QuadPoints == {<<0, 0>>, <<8, 0>>, <<8, 8>>, <<0, 8>>, <<4, 8>>, <<4, 2>>}

\* the rings of n distinct points of P
RingsOver(P, n) ==
  {r \in [1 .. n -> P] : \A i, j \in 1 .. n : i # j => r[i] # r[j]}

\* the closed segments a b and c d have a point in common
SegmentsTouch(a, b, c, d) ==
  LET o1 == orient(a, b, c)
      o2 == orient(a, b, d)
      o3 == orient(c, d, a)
      o4 == orient(c, d, b)
  IN  \/ (o1 * o2 < 0 /\ o3 * o4 < 0)
      \/ (o1 = 0 /\ onSegBox(a, c, b))
      \/ (o2 = 0 /\ onSegBox(a, d, b))
      \/ (o3 = 0 /\ onSegBox(c, a, d))
      \/ (o4 = 0 /\ onSegBox(c, b, d))

\* the ring is a simple polygon: its area is not zero, two sides that follow
\* each other do not fold back, two sides that do not have no common point
IsSimpleRing(pts) ==
  LET n == Len(pts)
  IN  /\ getSimpleArea2(pts) > 0
      /\ \A i \in Idx(pts) :
            ~(/\ orient(At(pts, i + 1), At(pts, i), At(pts, i + 2)) = 0
              /\ dot(sub(At(pts, i), At(pts, i + 1)), sub(At(pts, i + 2), At(pts, i + 1))) > 0)
      /\ \A i, j \in Idx(pts) :
            (i < j /\ j # i + 1 /\ (j + 1) % n # i) =>
               ~SegmentsTouch(At(pts, i), At(pts, i + 1), At(pts, j), At(pts, j + 1))

DecInputs ==
  {LShape, Dart, HoledTriangle, Pentagon, RightTriangle, ClockwiseTriangle,
   ClockwiseSquare, SquareWithMidpoint}
    \cup {Polygon(r, <<>>) : r \in RingsOver(QuadPoints, 3)}
    \cup {Polygon(r, <<>>) : r \in {q \in RingsOver(QuadPoints, 4) : IsSimpleRing(q)}}

DecInit ==
  /\ heap = EmptyHeap
  /\ op = NoOp
  /\ steps = 0
  /\ ConvIdle
  /\ BatchIdle
  /\ dcPc = "call"
  /\ dcPolygon \in DecInputs
  /\ dcInput = None
  /\ dcTess = <<>>
  /\ dcPolygons = <<>>
  /\ tessCalled = FALSE
  /\ tessMesh = {}

\* convexDecomposition(dcPolygon) up to the early return or the call of
\* toTriangles
ConvexDecompositionCall ==
  /\ dcPc = "call"
  /\ dcInput' = clone(dcPolygon)
  /\ IF returnsInput(dcInput')
     THEN /\ dcPolygons' = <<dcInput'>>
          /\ dcPc' = "done"
          /\ UNCHANGED <<tessCalled, tessMesh>>
     ELSE /\ dcPolygons' = <<>>
          /\ dcPc' = "tess"
          /\ tessCalled' = TRUE
          /\ tessMesh' = TessTriangles(dcInput')
  /\ UNCHANGED <<treeVars, convVars, batchVars, dcPolygon, dcTess>>

\* the tessellator hands back one more triangle of the polygon, apart from
\* those it has handed back
TessellatorEmits ==
  /\ dcPc = "tess"
  /\ TessArea2(dcTess) < getArea2(dcInput)
  /\ \E t \in tessMesh :
       /\ \A k \in DOMAIN dcTess : TrianglesApart(dcTess[k], t)
       /\ dcTess' = Append(dcTess, t)
  /\ UNCHANGED <<treeVars, convVars, batchVars, dcPc, dcPolygon, dcInput, dcPolygons, tessCalled, tessMesh>>

\* the polygon is tiled: toTriangles returns
ToTrianglesReturns ==
  /\ dcPc = "tess"
  /\ TessArea2(dcTess) = getArea2(dcInput)
  /\ dcPolygons' = toTriangles(dcTess)
  /\ dcPc' = "merge"
  /\ UNCHANGED <<treeVars, convVars, batchVars, dcPolygon, dcInput, dcTess, tessCalled, tessMesh>>

\* one pass of the while loop; the pass that merges nothing ends the call
MergePass ==
  /\ dcPc = "merge"
  /\ LET r == mergePass(dcPolygons)
     IN  /\ dcPolygons' = r.polygons
         /\ dcPc' = IF r.merged THEN "merge" ELSE "done"
  /\ UNCHANGED <<treeVars, convVars, batchVars, dcPolygon, dcInput, dcTess, tessCalled, tessMesh>>

DecNext == ConvexDecompositionCall \/ TessellatorEmits \/ ToTrianglesReturns \/ MergePass

SpecDecomp == DecInit /\ [][DecNext]_vars

\* the doubled areas of the polygons of a list, added up
PiecesArea2(polys) ==
  SumTo([k \in 0 .. (Len(polys) - 1) |-> getArea2(polys[k + 1])], Len(polys))

\* the points of a ring as a set
PointSet(pts) == {pts[i] : i \in DOMAIN pts}

\* C5, as claimed: every piece convexDecomposition returns satisfies isConvex()
\* and has a counterclockwise outer ring, for every input of at least 3
\* points, triangles of either winding included.
C5_PiecesConvexCounterClockwise ==
  (dcPc = "done" /\ Len(dcPolygon.points) >= 3) =>
     \A k \in DOMAIN dcPolygons :
        isConvex(dcPolygons[k]) /\ isCounterClockwise(dcPolygons[k].points)

\* C5, amended: for every input that is not a hole-free 3-point ring every
\* piece convexDecomposition returns satisfies isConvex() and has a
\* counterclockwise outer ring; a hole-free 3-point ring is returned as the
\* only piece, unchanged, so the piece is convex and counterclockwise exactly
\* when the input is.
C5_PiecesConvexUnlessTriangleInput ==
  dcPc = "done" =>
     /\ ~isTriangle(dcPolygon) =>
          \A k \in DOMAIN dcPolygons :
             isConvex(dcPolygons[k]) /\ isCounterClockwise(dcPolygons[k].points)
     /\ isTriangle(dcPolygon) =>
          /\ dcPolygons = <<dcPolygon>>
          /\ isConvex(dcPolygons[1]) = isCounterClockwise(dcPolygon.points)

\* C5's case: the tessellator was called, triangles merged into a piece of
\* more than 3 points and more than one piece is returned.
C5_Witness ==
  /\ dcPc = "done"
  /\ tessCalled
  /\ Len(dcPolygons) >= 2
  /\ \E k \in DOMAIN dcPolygons : Len(dcPolygons[k].points) >= 4

\* C6: for a simple polygon, with or without holes, whose tessellation is an
\* exact tiling by counterclockwise triangles of non-zero area, the areas of
\* the polygons of convexDecomposition add up to the area of the input after
\* toTriangles, after every pass of the loop and on return.
C6_DecompositionKeepsArea ==
  dcPc \in {"merge", "done"} => PiecesArea2(dcPolygons) = getArea2(dcPolygon)

\* C6's case: a polygon with a hole was decomposed and passes of the loop
\* merged triangles.
C6_Witness ==
  /\ dcPc = "done"
  /\ hasHole(dcPolygon)
  /\ Len(dcTess) = 6
  /\ Len(dcPolygons) < Len(dcTess)
  /\ PiecesArea2(dcPolygons) = getArea2(dcPolygon)

\* the ring is a rectangle: a parallelogram with a right angle
IsRectangle(poly) ==
  /\ isParallelogram(poly)
  /\ dot(sub(poly.points[2], poly.points[1]), sub(poly.points[3], poly.points[2])) = 0

\* no vertex of the ring is reflex
NoReflexVertex(pts) ==
  \A i \in Idx(pts) : ~isReflex(At(pts, i - 1 + Len(pts)), At(pts, i), At(pts, i + 1))

\* C7, as claimed: for the L-shaped hexagon convexDecomposition returns
\* exactly 2 convex pieces, two rectangles, of combined area 3 (24 doubled, in
\* model coordinates) and without reflex vertex, whatever the triangulation.
C7_LShapeGivesTwoRectangles ==
  (dcPc = "done" /\ dcPolygon = LShape) =>
     /\ Len(dcPolygons) = 2
     /\ \A k \in DOMAIN dcPolygons :
          /\ IsRectangle(dcPolygons[k])
          /\ isConvex(dcPolygons[k])
          /\ NoReflexVertex(dcPolygons[k].points)
     /\ PiecesArea2(dcPolygons) = 24

\* the two trapezoids the diagonal from (0,0) to (1,1) cuts the L into
LShapeTrapezoids ==
  {{<<0, 0>>, <<4, 0>>, <<4, 2>>, <<2, 2>>}, {<<0, 0>>, <<2, 2>>, <<2, 4>>, <<0, 4>>}}

\* the triangle under the line from (2,0) to (0,2) and the two corner
\* triangles above it
LShapeTriangles ==
  {{<<0, 0>>, <<4, 0>>, <<0, 4>>}, {<<4, 0>>, <<4, 2>>, <<2, 2>>}, {<<2, 2>>, <<2, 4>>, <<0, 4>>}}

\* C7, amended: for the L-shaped hexagon convexDecomposition returns either
\* exactly 2 pieces, the trapezoids [(0,0),(2,0),(2,1),(1,1)] and
\* [(0,0),(1,1),(1,2),(0,2)], or exactly 3 pieces, the triangles
\* [(0,0),(2,0),(0,2)], [(2,0),(2,1),(1,1)] and [(1,1),(1,2),(0,2)], and
\* never a rectangle; in both cases every piece is convex, without reflex
\* vertex, and the combined area is 3, whatever the triangulation and the
\* order of its triangles.
C7_LShapeGivesTrapezoidsOrTriangles ==
  (dcPc = "done" /\ dcPolygon = LShape) =>
     /\ \/ /\ Len(dcPolygons) = 2
           /\ {PointSet(dcPolygons[k].points) : k \in DOMAIN dcPolygons} = LShapeTrapezoids
           /\ \A k \in DOMAIN dcPolygons : Len(dcPolygons[k].points) = 4
        \/ /\ Len(dcPolygons) = 3
           /\ {PointSet(dcPolygons[k].points) : k \in DOMAIN dcPolygons} = LShapeTriangles
           /\ \A k \in DOMAIN dcPolygons : Len(dcPolygons[k].points) = 3
     /\ \A k \in DOMAIN dcPolygons :
          /\ ~IsRectangle(dcPolygons[k])
          /\ isConvex(dcPolygons[k])
          /\ NoReflexVertex(dcPolygons[k].points)
     /\ PiecesArea2(dcPolygons) = 24

\* C7's case: the L was cut into 4 triangles and 3 pieces are returned.
C7_Witness ==
  /\ dcPc = "done"
  /\ dcPolygon = LShape
  /\ Len(dcTess) = 4
  /\ Len(dcPolygons) = 3

\* C8: convexDecomposition of a polygon that isConvex() accepts returns at
\* once one piece, equal to the input point by point and hole by hole, does
\* not call the tessellator and leaves the input as it was.
C8_ConvexInputReturnedUnchanged ==
  [][(dcPc = "call" /\ isConvex(dcPolygon)) =>
       /\ dcPc' = "done"
       /\ dcPolygons' = <<dcPolygon>>
       /\ tessCalled' = FALSE
       /\ dcTess' = <<>>
       /\ dcPolygon' = dcPolygon]_vars

\* C8's case: a convex polygon of more than 3 points came back as the only
\* piece.
C8_Witness ==
  /\ dcPc = "done"
  /\ isConvex(dcPolygon)
  /\ Len(dcPolygon.points) >= 4
  /\ dcPolygons = <<dcPolygon>>
  /\ ~tessCalled

\* the call of convexDecomposition runs to its end once started: every pass
\* of the while loop is a step of the running call
\* a square with a notch cut into its top side
NotchedPentagon == Polygon(<<<<0, 0>>, <<8, 0>>, <<8, 8>>, <<4, 6>>, <<0, 8>>>>, <<>>)

MergeLoopInputs == {Dart, Pentagon, SquareWithMidpoint, ClockwiseSquare, NotchedPentagon}

MergeLoopInit ==
  /\ heap = EmptyHeap
  /\ op = NoOp
  /\ steps = 0
  /\ ConvIdle
  /\ BatchIdle
  /\ dcPc = "call"
  /\ dcPolygon \in MergeLoopInputs
  /\ dcInput = None
  /\ dcTess = <<>>
  /\ dcPolygons = <<>>
  /\ tessCalled = FALSE
  /\ tessMesh = {}

SpecDecompFair == MergeLoopInit /\ [][DecNext]_vars /\ WF_vars(MergePass)

\* a pair of pieces that share exactly two points and whose merged ring is
\* convex is in the list
MergeablePairIn(polygons) ==
  \E i, j \in DOMAIN polygons :
     /\ i < j
     /\ Len(sharedPoints(polygons[i], polygons[j])) = 2
     /\ isConvex(mergePolygons(polygons[i], polygons[j],
                               sharedPoints(polygons[i], polygons[j])))

\* C24: the merge loop of convexDecomposition terminates; every pass that
\* merges replaces two pieces by one, so that at most T - 1 merges happen for
\* the T triangles of toTriangles, and on return no pair of pieces that share
\* exactly two points has a convex merged ring.
C24_MergeLoopTerminates ==
  /\ (dcPc = "merge") ~> (dcPc = "done")
  /\ [][(dcPc = "merge" /\ dcPc' = "merge") =>
          Len(dcPolygons') = Len(dcPolygons) - 1]_vars
  /\ [][(dcPc = "merge" /\ dcPc' = "done") => dcPolygons' = dcPolygons]_vars
  /\ [](dcPc \in {"merge", "done"} /\ tessCalled =>
          /\ Len(dcPolygons) >= 1
          /\ Len(toTriangles(dcTess)) - Len(dcPolygons) <= Len(toTriangles(dcTess)) - 1)
  /\ [](dcPc = "done" /\ tessCalled => ~MergeablePairIn(dcPolygons))

\* C24's case: the loop ran on 3 triangles, merged two of them and returned
\* when the two pieces left did not merge.
C24_Witness ==
  /\ dcPc = "done"
  /\ tessCalled
  /\ Len(toTriangles(dcTess)) = 3
  /\ Len(dcPolygons) = 2
  /\ \E k \in DOMAIN dcPolygons : Len(dcPolygons[k].points) = 4

\* ------------------------------------------- script.js: convertToDisplay
\* One click on Convert: the reduce over the polygons of toPolygons, one
\* toDisplay a step, then nestedDisplay of the Displays into resultDisplay.
\* Nothing in convertToDisplay catches: an error of toDisplay or of
\* nestedDisplay leaves the handler.

\* the most polygons in a batch
MaxBatch == 3

\* four points on a line: the tessellator finds no triangle in it
FlatQuad == Polygon(<<<<0, 0>>, <<4, 0>>, <<8, 0>>, <<12, 0>>>>, <<>>)

\* the L cut from (0,0): four triangles
LShapeFan ==
  << <<<<0, 0>>, <<4, 0>>, <<4, 2>>>>, <<<<0, 0>>, <<4, 2>>, <<2, 2>>>>,
     <<<<0, 0>>, <<2, 2>>, <<2, 4>>>>, <<<<0, 0>>, <<2, 4>>, <<0, 4>>>> >>

BatchItems ==
  { [polygon |-> RightTriangle, tess |-> TessGives(<<>>)],
    [polygon |-> LShape, tess |-> TessGives(LShapeFan)],
    [polygon |-> LShape, tess |-> TessError],
    [polygon |-> FlatQuad, tess |-> TessGives(<<>>)] }

BatchInit ==
  /\ heap = EmptyHeap
  /\ op = NoOp
  /\ steps = 0
  /\ ConvIdle
  /\ DecIdle
  /\ bPc = "reduce"
  /\ \E n \in 0 .. MaxBatch : batch \in [1 .. n -> BatchItems]
  /\ bAcc = <<>>
  /\ resultDisplay = 0
  /\ UiIdle

\* the next step of the reduce: toDisplay(polygon), its Display pushed; an
\* error of toDisplay ends convertToDisplay
ReduceStep ==
  /\ bPc = "reduce"
  /\ steps < Len(batch)
  /\ \E r \in {toDisplay(heap, batch[steps + 1].polygon, batch[steps + 1].tess)} :
       /\ heap' = r.heap
       /\ IF r.thrown
          THEN bPc' = "aborted" /\ bAcc' = bAcc
          ELSE bPc' = "reduce" /\ bAcc' = Append(bAcc, [polygon |-> steps + 1, display |-> r.root])
  /\ steps' = steps + 1
  /\ UNCHANGED <<op, convVars, decVars, batch, resultDisplay, uiVars>>

\* resultDisplay = Display.nestedDisplay(displays); the empty list ends
\* convertToDisplay with a TypeError
NestResult ==
  /\ bPc = "reduce"
  /\ steps = Len(batch)
  /\ IF bAcc = <<>>
     THEN bPc' = "aborted" /\ UNCHANGED <<heap, resultDisplay>>
     ELSE /\ heap' = nestedDisplay(heap, [k \in DOMAIN bAcc |-> bAcc[k].display])
          /\ resultDisplay' = bAcc[1].display
          /\ bPc' = "done"
  /\ UNCHANGED <<op, steps, convVars, decVars, batch, bAcc, uiVars>>

BatchNext == ReduceStep \/ NestResult

SpecBatch == BatchInit /\ [][BatchNext]_vars

\* the conversion of the polygon alone succeeds
ConvertsAlone(item) == ~toDisplay(EmptyHeap, item.polygon, item.tess).thrown

\* polygon k of the batch has its Display in the tree of resultDisplay
InResult(k) ==
  /\ resultDisplay # 0
  /\ \E a \in DOMAIN bAcc :
       bAcc[a].polygon = k /\ bAcc[a].display \in Subtree(heap, {resultDisplay})

\* C10: when convertToDisplay has ended, every polygon of the batch whose own
\* conversion does not fail has its Display in the tree of resultDisplay,
\* whatever failed for the other polygons of the batch.
C10_FailureDoesNotAbortBatch ==
  bPc \in {"done", "aborted"} =>
     \A k \in DOMAIN batch : ConvertsAlone(batch[k]) => InResult(k)

\* toDisplay of polygon k of the batch reached nestedDisplay with an empty
\* list: the read of base.translation of undefined, a TypeError
EmptyListInToDisplay(k) ==
  toDisplay(EmptyHeap, batch[k].polygon, batch[k].tess).why = "TypeError"

\* C29: nestedDisplay is only ever called with a non-empty list: toDisplay
\* returns a Display for every polygon the reduce of convertToDisplay came to,
\* one the tessellator finds no counterclockwise triangle in included, and
\* convertToDisplay, when every toDisplay of the batch returned, ends with a
\* resultDisplay, for the batch of zero polygons too.
C29_NestedDisplayListNeverEmpty ==
  /\ \A k \in 1 .. steps : ~EmptyListInToDisplay(k)
  /\ (bPc \in {"done", "aborted"} /\ \A k \in DOMAIN batch : ConvertsAlone(batch[k])) =>
        (bPc = "done" /\ resultDisplay # 0)

\* ------------------------------------------- isSegmentInside, by inputs
\* One call of polygon.isSegmentInside(p0, p1), the polygon being the L-shaped
\* hexagon or a square with a triangular hole and the two points any points
\* of a grid of half program units over it.

\* the grid has (SegSteps + 1)^2 points, 1 model unit apart
SegSteps == 4

SegPoints == {<<i, j>> : i, j \in 0 .. SegSteps}

\* the program's square [(0,0),(2,0),(2,2),(0,2)] with the hole
\* [(0.5,0.5),(0.5,1.5),(1.5,0.5)]
SmallHoledSquare ==
  Polygon(<<<<0, 0>>, <<4, 0>>, <<4, 4>>, <<0, 4>>>>, <<<<<<1, 1>>, <<1, 3>>, <<3, 1>>>>>>)

SegInit ==
  /\ heap = EmptyHeap
  /\ \E polygon \in {LShape, SmallHoledSquare}, p0 \in SegPoints, p1 \in SegPoints :
       op = [name |-> "input", polygon |-> polygon, p0 |-> p0, p1 |-> p1]
  /\ steps = 0
  /\ ConvIdle
  /\ DecIdle
  /\ BatchIdle

\* polygon.isSegmentInside(p0, p1)
IsSegmentInsideCall ==
  /\ op.name = "input"
  /\ op' = [name |-> "isSegmentInside", polygon |-> op.polygon, p0 |-> op.p0, p1 |-> op.p1,
            result |-> isSegmentInside(op.polygon, op.p0, op.p1)]
  /\ UNCHANGED <<heap, steps, convVars, decVars, batchVars>>

SegNext == IsSegmentInsideCall

SpecSeg == SegInit /\ [][SegNext]_vars

\* the points of the closed segment a b whose doubled coordinates are integers,
\* doubled
DoubledPointsOn(a, b) ==
  {pt \in LatticeBox({scale(a, 2), scale(b, 2)}) : orient(scale(a, 2), scale(b, 2), pt) = 0}

\* C21: whenever isSegmentInside(p0, p1) returns true, every point of the
\* segment (here: its points on the grid and halfway between them) lies in
\* the polygon's filled region, inside or on the outer ring and in no hole's
\* interior; a segment joining two boundary vertices across the mouth of a
\* concave notch is one that does not.
C21_AcceptedSegmentInFilledRegion ==
  (op.name = "isSegmentInside" /\ op.result) =>
     \A pt \in DoubledPointsOn(op.p0, op.p1) : isInside(Scaled(op.polygon, 2), pt)

\* the point pt lies on the edge e strictly between its two vertices
StrictlyOnEdge(pt, e) == onSegInside(pt, e[1], e[2]) /\ pt # e[1] /\ pt # e[2]

\* the segment from p0 to p1 lies in the filled region, p0 lies on one edge
\* strictly between its vertices and the rest of the segment touches no edge:
\* p1 is inside, off the line of that edge, and no other edge has a point in
\* common with the segment
EndsOnEdgeOnly(poly, p0, p1) ==
  /\ isInside(poly, p1)
  /\ \E e \in EdgesOf(poly) :
       /\ StrictlyOnEdge(p0, e)
       /\ orient(e[1], e[2], p1) # 0
       /\ \A f \in EdgesOf(poly) \ {e} : ~SegmentsTouch(p0, p1, f[1], f[2])

\* C22: isSegmentInside counts endpoints on edges as inside: it returns true
\* for a segment that lies in the filled region and whose endpoint lies on a
\* boundary edge strictly between the edge's vertices, the rest of the
\* segment touching no edge.
C22_EndpointOnEdgeIsInside ==
  (op.name = "isSegmentInside" /\ EndsOnEdgeOnly(op.polygon, op.p0, op.p1)) => op.result

\* ---------------------------------- getMaxInteriorAngleIndex, by inputs
\* One call of polygon.getMaxInteriorAngleIndex(), the polygon being a ring of
\* 0 to 3 distinct grid points or one of the named polygons.

AngleInputs ==
  {Polygon(r, <<>>) : r \in GridRings(3) \cup GridRings(2) \cup GridRings(1) \cup {<<>>}}
  \cup {LShape, Dart, Pentagon, ClockwiseSquare, SquareWithMidpoint}

AngleInit ==
  /\ heap = EmptyHeap
  /\ \E polygon \in AngleInputs : op = [name |-> "input", polygon |-> polygon]
  /\ steps = 0
  /\ ConvIdle
  /\ DecIdle
  /\ BatchIdle

\* polygon.getMaxInteriorAngleIndex()
GetMaxInteriorAngleIndexCall ==
  /\ op.name = "input"
  /\ op' = [name |-> "getMaxInteriorAngleIndex", polygon |-> op.polygon,
            result |-> getMaxInteriorAngleIndex(op.polygon)]
  /\ UNCHANGED <<heap, steps, convVars, decVars, batchVars>>

AngleNext == GetMaxInteriorAngleIndexCall

SpecAngle == AngleInit /\ [][AngleNext]_vars

\* the interior angle at vertex i of a simple ring is more than 180 degrees:
\* the ring turns against its own winding there
ReflexAt(pts, i) ==
  IF isCounterClockwise(pts)
  THEN cross(sub(At(pts, i), At(pts, i - 1 + Len(pts))), sub(At(pts, i + 1), At(pts, i))) < 0
  ELSE cross(sub(At(pts, i), At(pts, i - 1 + Len(pts))), sub(At(pts, i + 1), At(pts, i))) > 0

\* the interior angle at vertex i of a simple ring is larger than that at j: a
\* reflex angle is larger than one that is not, of two angles up to 180
\* degrees the one with the smaller cosine is larger, of two reflex angles
\* the one whose edge vectors have the larger cosine
InteriorAngleLarger(pts, i, j) ==
  \/ ReflexAt(pts, i) /\ ~ReflexAt(pts, j)
  \/ ~ReflexAt(pts, i) /\ ~ReflexAt(pts, j) /\ cosLess(pts, i, j)
  \/ ReflexAt(pts, i) /\ ReflexAt(pts, j) /\ cosLess(pts, j, i)

\* C23: getMaxInteriorAngleIndex() returns -1 for a ring of fewer than 3
\* points and otherwise an index in 0 .. n - 1, for a simple ring, convex or
\* concave, that of a vertex with the largest interior angle, a reflex
\* vertex counting as more than 180 degrees; for the L-shaped hexagon
\* [(0,0),(2,0),(2,1),(1,1),(1,2),(0,2)] it returns 3.
C23_LargestInteriorAngleIndex ==
  op.name = "getMaxInteriorAngleIndex" =>
     LET pts == op.polygon.points
         n == Len(pts)
     IN  /\ n < 3 => op.result = -1
         /\ n >= 3 => op.result \in 0 .. (n - 1)
         /\ (n >= 3 /\ IsSimpleRing(pts)) =>
               \A j \in Idx(pts) : ~InteriorAngleLarger(pts, j, op.result)
         /\ op.polygon = LShape => op.result = 3

\* ------------------------------------------------ geometry.js: mergePolygons
\* mergePolygons on two pieces as convexDecomposition calls it: the shared
\* list is that of its double loop over the points of polyA and polyB.

MergePoints == {<<0, 0>>, <<4, 0>>, <<8, 0>>, <<0, 4>>, <<4, 4>>, <<8, 4>>}

\* the counterclockwise convex rings of 3 and 4 of the points, from every
\* start vertex
MergePieces ==
  {p \in {Polygon(r, <<>>) : r \in RingsOver(MergePoints, 3) \cup RingsOver(MergePoints, 4)} :
     isConvex(p) /\ getSimpleArea2(p.points) > 0}

\* the pieces have two points in common, the ends of a side of polyA that
\* polyB has in the opposite direction
ShareOneEdge(polyA, polyB) ==
  /\ Cardinality(PointSet(polyA.points) \cap PointSet(polyB.points)) = 2
  /\ \E e \in EdgesOfRing(polyA.points) : <<e[2], e[1]>> \in EdgesOfRing(polyB.points)

MergeInputs ==
  {ab \in MergePieces \X MergePieces : ShareOneEdge(ab[1], ab[2])}

MergeInit ==
  /\ heap = EmptyHeap
  /\ op \in {[name |-> "input", polyA |-> ab[1], polyB |-> ab[2]] : ab \in MergeInputs}
  /\ steps = 0
  /\ ConvIdle
  /\ DecIdle
  /\ BatchIdle

\* the shared list of the two pieces and their mergePolygons
MergePolygonsCall ==
  /\ op.name = "input"
  /\ \E shared \in {sharedPoints(op.polyA, op.polyB)} :
        op' = [name |-> "mergePolygons", polyA |-> op.polyA, polyB |-> op.polyB,
               shared |-> shared,
               result |-> mergePolygons(op.polyA, op.polyB, shared)]
  /\ UNCHANGED <<heap, steps, convVars, decVars, batchVars>>

MergeNext == MergePolygonsCall

SpecMerge == MergeInit /\ [][MergeNext]_vars

\* how many times the point is in the ring
TimesIn(pts, p) == Cardinality({i \in DOMAIN pts : pts[i] = p})

\* the shared side of polyA runs from its last point to its first
WrapsInA(polyA, polyB) ==
  <<polyA.points[1], polyA.points[Len(polyA.points)]>> \in EdgesOfRing(polyB.points)

\* the shared side of polyB runs from its last point to its first
WrapsInB(polyA, polyB) ==
  <<polyB.points[1], polyB.points[Len(polyB.points)]>> \in EdgesOfRing(polyA.points)

\* C25: for two counterclockwise convex pieces that have one side in common
\* and no other common point, mergePolygons returns a ring of |A| + |B| - 2
\* points that has every point of A and of B exactly once, is
\* counterclockwise and encloses the areas of A and B added up, wherever the
\* shared side is in the two lists.
C25_MergeSplicesRings ==
  op.name = "mergePolygons" =>
     LET merged == op.result.points
     IN  /\ Len(merged) = Len(op.polyA.points) + Len(op.polyB.points) - 2
         /\ \A p \in PointSet(op.polyA.points) \cup PointSet(op.polyB.points) :
               TimesIn(merged, p) = 1
         /\ PointSet(merged) = PointSet(op.polyA.points) \cup PointSet(op.polyB.points)
         /\ isCounterClockwise(merged)
         /\ getSimpleArea2(merged) = getSimpleArea2(op.polyA.points) + getSimpleArea2(op.polyB.points)

\* C25's case: a quadrilateral and a triangle were merged, the shared side
\* running from the last point to the first in both lists.
C25_Witness ==
  /\ op.name = "mergePolygons"
  /\ Len(op.polyA.points) = 4
  /\ Len(op.polyB.points) = 3
  /\ WrapsInA(op.polyA, op.polyB)
  /\ WrapsInB(op.polyA, op.polyB)
  /\ Len(op.result.points) = 5
  /\ getSimpleArea2(op.result.points) = getSimpleArea2(op.polyA.points) + getSimpleArea2(op.polyB.points)

\* --------------------------------------------- Polygon.removeColinear, by rings
\* One call of Polygon.removeColinear(points) on a simple ring of 3 or 4 of
\* the points, or on such a ring with one of its points twice in a row.

\* the ring with its point at index i (1-based) twice in a row
WithDuplicate(pts, i) == SubSeq(pts, 1, i) \o SubSeq(pts, i, Len(pts))

ColinearInputs ==
  UNION {{r} \cup {WithDuplicate(r, i) : i \in DOMAIN r} :
           r \in {q \in RingsOver(QuadPoints, 3) \cup RingsOver(QuadPoints, 4) : IsSimpleRing(q)}}

ColinearInit ==
  /\ heap = EmptyHeap
  /\ op \in {[name |-> "input", points |-> r] : r \in ColinearInputs}
  /\ steps = 0
  /\ ConvIdle
  /\ DecIdle
  /\ BatchIdle

\* Polygon.removeColinear(points), and removeColinear of what it returned
RemoveColinearCall ==
  /\ op.name = "input"
  /\ \E result \in {removeColinear(op.points)} :
        op' = [name |-> "removeColinear", points |-> op.points, result |-> result,
               again |-> removeColinear(result)]
  /\ UNCHANGED <<heap, steps, convVars, decVars, batchVars>>

ColinearNext == RemoveColinearCall

SpecColinear == ColinearInit /\ [][ColinearNext]_vars

\* the list kept is the list pts with some elements left out
RECURSIVE IsSubsequence(_, _)
IsSubsequence(kept, pts) ==
  IF kept = <<>> THEN TRUE
  ELSE IF pts = <<>> THEN FALSE
  ELSE IF Head(kept) = Head(pts) THEN IsSubsequence(Tail(kept), Tail(pts))
  ELSE IsSubsequence(kept, Tail(pts))

\* C28: for every ring of 3 or more points, rings with a point twice in a row
\* included, the ring removeColinear returns has the shoelace area of the
\* input ring, has its points in the order of the input, and is returned
\* unchanged by removeColinear.
C28_RemoveColinearKeepsRegion ==
  op.name = "removeColinear" =>
     /\ getSimpleArea2(op.result) = getSimpleArea2(op.points)
     /\ IsSubsequence(op.result, op.points)
     /\ op.again = op.result

\* ------------------------------------------------ script.js: the UI events
\* The handlers of the page in any order: a file is chosen or dropped, the
\* replace dialog is confirmed or cancelled, a FileReader calls onload or
\* onerror, Convert is clicked, Summon is clicked.  A file is a number;
\* resultDisplay is here the file whose SVG it was converted from, 0 for
\* null.  op records the handler that ran last and how it ended.

\* the SVG files with paths the user has
MaxFiles == 2

\* an SVG file without a path: toPolygons gives [] for it
NoPathFile == MaxFiles + 1

\* a file that is not image/svg+xml
NotSvgFile == MaxFiles + 2

Files == 1 .. (MaxFiles + 2)

UiInit ==
  /\ heap = EmptyHeap
  /\ op = NoOp
  /\ steps = 0
  /\ ConvIdle
  /\ DecIdle
  /\ BatchIdle

\* loadSVGFromFiles(files): the FileReader starts to read and updateSidebar
\* resets the statistics, which disables the summon button; the drawing is
\* left as it is until onload
loadSVGFromFiles(file) ==
  IF file = NotSvgFile
  THEN UNCHANGED <<readers, summonButton>>
  ELSE readers' = readers \cup {file} /\ summonButton' = "disabled"

\* the change handler of the file input and the drop handler: with an
\* original in the drawing the replace dialog asks first.  A file is read by
\* one FileReader at a time.
FileSelected ==
  /\ replaceConfirmDialog = "hidden"
  /\ \E file \in Files \ readers :
       /\ IF draw.original # 0
          THEN /\ pendingSVGFiles' = file
               /\ replaceConfirmDialog' = "shown"
               /\ UNCHANGED <<readers, summonButton>>
          ELSE /\ loadSVGFromFiles(file)
               /\ UNCHANGED <<pendingSVGFiles, replaceConfirmDialog>>
       /\ op' = [name |-> "fileSelected", file |-> file]
  /\ UNCHANGED <<heap, steps, convVars, decVars, bPc, batch, bAcc, resultDisplay, draw>>

\* the click handler of the dialog's confirm button
ConfirmReplaceClick ==
  /\ replaceConfirmDialog = "shown"
  /\ IF pendingSVGFiles # 0
     THEN loadSVGFromFiles(pendingSVGFiles) /\ pendingSVGFiles' = 0
     ELSE UNCHANGED <<readers, summonButton, pendingSVGFiles>>
  /\ replaceConfirmDialog' = "hidden"
  /\ op' = [name |-> "confirmReplace", file |-> pendingSVGFiles]
  /\ UNCHANGED <<heap, steps, convVars, decVars, bPc, batch, bAcc, resultDisplay, draw>>

\* the click handler of the dialog's cancel button
CancelReplaceClick ==
  /\ replaceConfirmDialog = "shown"
  /\ replaceConfirmDialog' = "hidden"
  /\ op' = [name |-> "cancelReplace", file |-> pendingSVGFiles]
  /\ UNCHANGED <<heap, steps, convVars, decVars, bPc, batch, bAcc, resultDisplay,
                 draw, summonButton, readers, pendingSVGFiles>>

\* reader.onload: draw.clear() removes every group, then the group
\* #original-svg is made of the file's text
ReaderOnload ==
  /\ \E file \in readers :
       /\ readers' = readers \ {file}
       /\ draw' = [original |-> file, polygonSvg |-> FALSE, displaySvg |-> FALSE]
       /\ op' = [name |-> "onload", file |-> file]
  /\ UNCHANGED <<heap, steps, convVars, decVars, bPc, batch, bAcc, resultDisplay,
                 summonButton, pendingSVGFiles, replaceConfirmDialog>>

\* reader.onerror: an alert
ReaderOnerror ==
  /\ \E file \in readers :
       /\ readers' = readers \ {file}
       /\ op' = [name |-> "onerror", file |-> file]
  /\ UNCHANGED <<heap, steps, convVars, decVars, bPc, batch, bAcc, resultDisplay,
                 draw, summonButton, pendingSVGFiles, replaceConfirmDialog>>

\* the click handler of the convert button and convertToDisplay: the two
\* groups are found or made, then Display.nestedDisplay(displays) throws for
\* the file without a path, before resultDisplay is assigned and the summon
\* button enabled
ConvertClick ==
  /\ replaceConfirmDialog = "hidden"
  /\ IF draw.original = 0
     THEN /\ op' = [name |-> "convertClick", outcome |-> "alert"]
          /\ UNCHANGED <<draw, resultDisplay, summonButton>>
     ELSE /\ draw' = [draw EXCEPT !.polygonSvg = TRUE, !.displaySvg = TRUE]
          /\ IF draw.original = NoPathFile
             THEN /\ op' = [name |-> "convertClick", outcome |-> "TypeError"]
                  /\ UNCHANGED <<resultDisplay, summonButton>>
             ELSE /\ resultDisplay' = draw.original
                  /\ summonButton' = "enabled"
                  /\ op' = [name |-> "convertClick", outcome |-> "converted"]
  /\ UNCHANGED <<heap, steps, convVars, decVars, bPc, batch, bAcc,
                 readers, pendingSVGFiles, replaceConfirmDialog>>

\* the click handler of the summon button, which a disabled button does not
\* call, and summonCommand: draw.findOne("#display-svg").bbox() is a
\* TypeError when the group is not in the drawing
SummonClick ==
  /\ summonButton = "enabled"
  /\ replaceConfirmDialog = "hidden"
  /\ op' = [name |-> "summonClick",
            outcome |-> IF draw.original = 0 \/ resultDisplay = 0 THEN "alert"
                        ELSE IF ~draw.displaySvg THEN "TypeError"
                        ELSE "command"]
  /\ UNCHANGED <<heap, steps, convVars, decVars, batchVars>>

UiNext ==
  \/ FileSelected
  \/ ConfirmReplaceClick
  \/ CancelReplaceClick
  \/ ReaderOnload
  \/ ReaderOnerror
  \/ ConvertClick
  \/ SummonClick

SpecUI == UiInit /\ [][UiNext]_vars

\* C30: under every interleaving of the handlers, whenever the summon button
\* is enabled the group #display-svg is in the drawing and resultDisplay was
\* computed from the SVG that is loaded, and no click on Summon ends in the
\* TypeError of a missing group.
C30_SummonEnabledMeansDisplayDrawn ==
  /\ summonButton = "enabled" =>
        (draw.original # 0 /\ draw.displaySvg /\ resultDisplay = draw.original)
  /\ ~(op.name = "summonClick" /\ op.outcome = "TypeError")

=============================================================================
